---- MODULE Spec2Model ----
(***************************************************************************)
(* Model of the document-chat pipeline of livdoc:                          *)
(*   - the upload-completion handlers onUploadComplete of the two file     *)
(*     routers (uploadthing core), run by several invocations whose awaits *)
(*     interleave, together with the tRPC mutation deleteFile;             *)
(*   - the chat route POST /api/message with its streamed completion;      *)
(*   - the paginated read getFileMessages driven by the infinite query of  *)
(*     the Messages component;                                             *)
(*   - the private tRPC procedures and the upload middleware called by any *)
(*     session for any document, each followed from await to await, next   *)
(*     to one POST /api/message;                                           *)
(*   - getUserSubscriptionPlan and the page limit it leads to, next to the *)
(*     Stripe webhook and authCallback, which write the User row;          *)
(*   - the chat client (send mutation, infinite query), with one send      *)
(*     under every event and with two sends at any time, and the toasts.   *)
(***************************************************************************)
EXTENDS Integers, Sequences, FiniteSets, TLC

\* ------------------------------------------------------------------------
\* Bounds of the model
\* ------------------------------------------------------------------------
\* the upload-completion invocations of a run: each is made once, at any time,
\* so that they run one after the other or interleaved
Slots == {"a", "b"}
Keys == {"k1", "k2"}
Users == {"u1", "u2"}
None == "none"

\* the ids of File rows (cuid), in the order they are handed out
FileIds == << "f1", "f2" >>

\* cursor: undefined, limit: undefined
Undefined == 0

\* the chat requests of a run
Reqs == {"r1", "r2"}

\* most tokens a completion stream yields
MaxTokens == 3

\* most messages a document has when its messages are paged through
MaxMsgs == 5

\* largest limit asked of getFileMessages
MaxLimit == 3

\* the tokens of a completion stream, as sequences of characters
Tokens == { << "a" >>, << "b", "c" >> }

\* the questions asked
Questions == { << "q", "1" >>, << "q", "2" >> }

\* what getUser() may return: no user, a user with no id, a user
Sessions == {"null", "noid"} \cup Users

\* ------------------------------------------------------------------------
\* Plans (config/stripe.ts)
\* ------------------------------------------------------------------------
PLANS ==
  << [name |-> "Free", slug |-> "free", quota |-> 10, pagesPerPdf |-> 5,
      priceId |-> ""],
     [name |-> "Pro", slug |-> "pro", quota |-> 50, pagesPerPdf |-> 25,
      priceId |-> "price_1Q5h0xLixez8j6TELDSPoPcY"] >>

\* PLANS.find((plan) => plan.name === name)!.pagesPerPdf
PagesPerPdf(name) ==
  PLANS[CHOOSE i \in 1..Len(PLANS) :
          /\ PLANS[i].name = name
          /\ \A j \in 1..(i - 1) : PLANS[j].name # name].pagesPerPdf

\* what an upload is: the plan state the middleware saw and the page count of
\* the stored PDF, taken at and just above the limit of the plan
PlanCases ==
  { c \in [isSubscribed : BOOLEAN, pages : 0..(PagesPerPdf("Pro") + 1)] :
      LET limit == IF c.isSubscribed THEN PagesPerPdf("Pro") ELSE PagesPerPdf("Free")
      IN  c.pages \in {limit, limit + 1} }

\* an upload of the Free plan whose PDF has as many pages as the plan allows
FreeAtLimit == [isSubscribed |-> FALSE, pages |-> PagesPerPdf("Free")]

\* metadata.userId of the upload of a key
KeyOwner(k) == IF k = "k1" THEN "u1" ELSE "u2"

VARIABLES
  files,      \* table File: set of rows [id, key, userId, uploadStatus]
  nextFileId, \* index in FileIds of the id the next created File row gets
  upserts,    \* PineconeStore.fromDocuments calls done: set of [ns, by, pages]
  upload,     \* per storage key: the middleware metadata and the stored PDF
  pc,         \* per slot: position in onUploadComplete
  ikey,       \* per slot: file.key
  dupOf,      \* per slot: id of the row that held file.key when it was invoked
  seqInv,     \* per slot: no other invocation was running when it was invoked
  created,    \* per slot: createdFile.id (None before the create)
  pagesAmt,   \* per slot: pageLevelDocs.length (0 before the parse)
  wrote,      \* per slot: the statuses it has written, in order
  did,        \* per slot: the calls it has made, "fetchFailed" once its fetch failed
  messages,   \* table Message: set of rows
              \*   [id, fileId, userId, isUserMessage, text, createdAt, by]
  nextMsgId,  \* id the next created Message row gets
  clock,      \* the database clock behind createdAt
  rpc,        \* per chat request: position in POST /api/message
  ruser,      \* per chat request: what getUser() returns
  rfile,      \* per chat request: body.fileId
  rtext,      \* per chat request: body.message
  nresults,   \* per chat request: results.length
  prev,       \* per chat request: prevMessage, as message ids
  resp,       \* per chat request: status of the HTTP response
  sent,       \* per chat request: the tokens forwarded to the caller
  acc,        \* per chat request: the completion aggregated by OpenAIStream
  pgLimit,    \* infinite query of Messages: the limit it asks for
  pgLoaded,   \* infinite query of Messages: the first page has been fetched
  pgPages,    \* infinite query of Messages: data.pages, as message ids
  pgNext,     \* infinite query of Messages: nextCursor of the last page
  pgCursor,   \* infinite query of Messages: the cursor the last page was asked with
  acct,       \* the uploader: [session, dbUser, getUser] (dbUser: the User rows of the id)
  pdfPages,   \* the page count of the PDF being uploaded
  meta,       \* what the upload middleware returned or threw
  rejected,   \* the page-limit condition of onUploadComplete: "none", "yes", "no"
  hook,       \* the Stripe webhook request of the uploader:
              \* [state, chunks, type, priceId, periodEnd]
  authcb,     \* authCallback of the uploader: where the procedure is
  api,        \* the answer of the last tRPC or middleware call, until it is taken
  pend,       \* per tRPC call: the request on the server and the await it is at
  poll,       \* status query of ChatWrapper: [user, status] (status "none": no data yet)
  cache,      \* infinite query { fileId, limit }: [defined, pages] of messages
  plainCache, \* query { fileId }: [defined, messages]
  input,      \* ChatContext: message, the text of the input field
  backup,     \* ChatContext: backupMessage.current
  srv,        \* the messages of the document on the server, newest first
  refetching, \* a refetch of the infinite query is in flight
  cstage,     \* per send: where its mutation is
  ctext,      \* per send: the message it sends
  cacc,       \* per send: accResponse of onSuccess
  ctxPrev,    \* per send: context.previousMessages of onMutate
  cbefore,    \* per send: the infinite query data when the send began
  sreq,       \* per send: where the server is with its POST /api/message
  sout,       \* per send: the chunks the server has written to the response
  fetched,    \* the fetch of the infinite query in flight:
              \* [kind, stage, want, pages, shared]
  isLoading,  \* ChatContext: isLoading
  toasts,     \* use-toast: memoryState.toasts
  toastTimeouts, \* use-toast: the keys of the map toastTimeouts
  pending,    \* use-toast: per toast id, the timeouts set and not yet fired
  count,      \* use-toast: the counter of genId
  lastAction  \* use-toast: the action dispatched last

local == << pc, ikey, dupOf, seqInv, created, pagesAmt, wrote, did >>

ingestVars == << files, nextFileId, upserts, upload, local >>

chatLocal == << rpc, ruser, rfile, rtext, nresults, prev, resp, sent, acc >>

chatVars == << messages, nextMsgId, clock, chatLocal >>

pageVars == << pgLimit, pgLoaded, pgPages, pgNext, pgCursor >>

planVars == << acct, pdfPages, meta, rejected, hook, authcb >>

clientVars ==
  << cache, plainCache, input, backup, srv, refetching, cstage, ctext, cacc,
     ctxPrev, cbefore, sreq, sout, fetched, isLoading >>

toastVars == << toasts, toastTimeouts, pending, count, lastAction >>

\* the state of the browser
uiVars == << poll, clientVars, toastVars >>

\* the answered call and the calls in flight
apiVars == << api, pend >>

serverVars == << ingestVars, chatVars, pageVars, planVars, apiVars >>

outsideClient == << serverVars, poll, toastVars >>

outsideToast == << serverVars, poll, clientVars >>

vars == << ingestVars, chatVars, pageVars, planVars, apiVars, uiVars >>

outsideIngest == << chatVars, pageVars, planVars, apiVars, uiVars >>

outsideChat == << ingestVars, pageVars, planVars, apiVars, uiVars >>

outsidePlan == << ingestVars, chatVars, pageVars, apiVars, uiVars >>

\* ------------------------------------------------------------------------
\* Database helpers (Prisma)
\* ------------------------------------------------------------------------
\* db.file.findFirst({ where: { key } }) finds a row
FileWithKey(k) == \E f \in files : f.key = k

\* a lookup by id alone
OwnedFile_AnyOwner(id, userId) == \E f \in files : f.id = id

\* db.file.findFirst({ where: { id, userId } }) finds a row
OwnedFile(id, userId) == \E f \in files : f.id = id /\ f.userId = userId

RowExists(id) == \E f \in files : f.id = id

FileRow(id) == CHOOSE f \in files : f.id = id

\* db.file.update({ data: { uploadStatus }, where: { id } }) on an existing row
WithStatus(id, st) ==
  { IF f.id = id THEN [f EXCEPT !.uploadStatus = st] ELSE f : f \in files }

\* the storage layer's unique constraint on File.key
KeyConflict(k) == FileWithKey(k)

\* ------------------------------------------------------------------------
\* onUploadComplete, one action per await
\* ------------------------------------------------------------------------
\* the upload provider calls the handler for a stored key
Invoke(p) ==
  /\ pc[p] = "idle"
  /\ p = "a" \/ pc["a"] # "idle"
  /\ \E k \in Keys :
       /\ ikey' = [ikey EXCEPT ![p] = k]
       /\ dupOf' = [dupOf EXCEPT ![p] =
            IF FileWithKey(k) THEN (CHOOSE f \in files : f.key = k).id ELSE None]
  /\ seqInv' = [seqInv EXCEPT ![p] =
       \A q \in Slots \ {p} : pc[q] \in {"idle", "done", "thrown"}]
  /\ pc' = [pc EXCEPT ![p] = "find"]
  /\ UNCHANGED << files, nextFileId, upserts, upload, created, pagesAmt, wrote, did >>
  /\ UNCHANGED outsideIngest

\* the upload provider calls the handler of the router whose onUploadComplete
\* begins with db.file.create: it makes no lookup of file.key
InvokeUnchecked(p) ==
  /\ pc[p] = "idle"
  /\ p = "a" \/ pc["a"] # "idle"
  /\ \E k \in Keys :
       /\ ikey' = [ikey EXCEPT ![p] = k]
       /\ dupOf' = [dupOf EXCEPT ![p] =
            IF FileWithKey(k) THEN (CHOOSE f \in files : f.key = k).id ELSE None]
  /\ seqInv' = [seqInv EXCEPT ![p] =
       \A q \in Slots \ {p} : pc[q] \in {"idle", "done", "thrown"}]
  /\ pc' = [pc EXCEPT ![p] = "create"]
  /\ UNCHANGED << files, nextFileId, upserts, upload, created, pagesAmt, wrote, did >>
  /\ UNCHANGED outsideIngest

\* const isFileExist = await db.file.findFirst(...); if (isFileExist) return;
FindExisting(p) ==
  /\ pc[p] = "find"
  /\ did' = [did EXCEPT ![p] = @ \cup {"find"}]
  /\ pc' = [pc EXCEPT ![p] = IF FileWithKey(ikey[p]) THEN "done" ELSE "create"]
  /\ UNCHANGED << files, nextFileId, upserts, upload >>
  /\ UNCHANGED << ikey, dupOf, seqInv, created, pagesAmt, wrote >>
  /\ UNCHANGED outsideIngest

\* CreateFile on a table with no constraint on the key
CreateFile_NoConflict(p) ==
  /\ pc[p] = "create"
  /\ did' = [did EXCEPT ![p] = @ \cup {"create"}]
  /\ nextFileId <= Len(FileIds)
  /\ files' = files \cup
        { [id |-> FileIds[nextFileId], key |-> ikey[p],
           userId |-> KeyOwner(ikey[p]),
           uploadStatus |-> "PROCESSING"] }
  /\ nextFileId' = nextFileId + 1
  /\ created' = [created EXCEPT ![p] = FileIds[nextFileId]]
  /\ wrote' = [wrote EXCEPT ![p] = Append(@, "PROCESSING")]
  /\ pc' = [pc EXCEPT ![p] = "fetch"]
  /\ UNCHANGED << upserts, upload, ikey, dupOf, seqInv, pagesAmt >>
  /\ UNCHANGED outsideIngest

\* const createdFile = await db.file.create({ ... uploadStatus: "PROCESSING" })
\* (outside the try: a rejected create rejects the handler)
CreateFile(p) ==
  /\ pc[p] = "create"
  /\ did' = [did EXCEPT ![p] = @ \cup {"create"}]
  /\ IF KeyConflict(ikey[p])
       THEN /\ pc' = [pc EXCEPT ![p] = "thrown"]
            /\ UNCHANGED << files, nextFileId, created, wrote >>
       ELSE /\ files' = files \cup
                  { [id |-> FileIds[nextFileId], key |-> ikey[p],
                     userId |-> KeyOwner(ikey[p]),
                     uploadStatus |-> "PROCESSING"] }
            /\ nextFileId' = nextFileId + 1
            /\ created' = [created EXCEPT ![p] = FileIds[nextFileId]]
            /\ wrote' = [wrote EXCEPT ![p] = Append(@, "PROCESSING")]
            /\ pc' = [pc EXCEPT ![p] = "fetch"]
  /\ UNCHANGED << upserts, upload, ikey, dupOf, seqInv, pagesAmt >>
  /\ UNCHANGED outsideIngest

\* const response = await fetch(url);
\* fetch rejects on a network error; a non-2xx response resolves; the call is
\* given no signal and no timeout, so a server that never responds leaves the
\* await pending ("hung")
Fetch(p) ==
  /\ pc[p] = "fetch"
  /\ \E res \in {"ok", "non2xx", "neterr", "hang"} :
       /\ did' = [did EXCEPT ![p] =
                    @ \cup {"fetch"}
                      \cup (IF res \in {"non2xx", "neterr"} THEN {"fetchFailed"} ELSE {})]
       /\ pc' = [pc EXCEPT ![p] = CASE res \in {"ok", "non2xx"} -> "blob"
                                    [] res = "neterr" -> "catch"
                                    [] res = "hang" -> "hung"]
  /\ UNCHANGED << files, nextFileId, upserts, upload >>
  /\ UNCHANGED << ikey, dupOf, seqInv, created, pagesAmt, wrote >>
  /\ UNCHANGED outsideIngest

\* const blob = await response.blob();
\* the body of a non-2xx response is read like any other and handed to the
\* loader; reading the body rejects when the connection breaks
Blob(p) ==
  /\ pc[p] = "blob"
  /\ \E read \in BOOLEAN :
       /\ did' = [did EXCEPT ![p] =
                    @ \cup (IF read THEN {} ELSE {"fetchFailed"})]
       /\ pc' = [pc EXCEPT ![p] = IF read THEN "parse" ELSE "catch"]
  /\ UNCHANGED << files, nextFileId, upserts, upload >>
  /\ UNCHANGED << ikey, dupOf, seqInv, created, pagesAmt, wrote >>
  /\ UNCHANGED outsideIngest

\* const pageLevelDocs = await loader.load(); const pagesAmt = pageLevelDocs.length;
\* the loader throws on a body that is no PDF; the status of the response is
\* never looked at, so the body of a non-2xx response that is a PDF loads
Parse(p) ==
  /\ pc[p] = "parse"
  /\ did' = [did EXCEPT ![p] = @ \cup {"parse"}]
  /\ \E good \in BOOLEAN :
       IF good
         THEN /\ pagesAmt' = [pagesAmt EXCEPT ![p] = upload[ikey[p]].pages]
              /\ pc' = [pc EXCEPT ![p] = "policy"]
         ELSE /\ pc' = [pc EXCEPT ![p] = "catch"]
              /\ UNCHANGED pagesAmt
  /\ UNCHANGED << files, nextFileId, upserts, upload >>
  /\ UNCHANGED << ikey, dupOf, seqInv, created, wrote >>
  /\ UNCHANGED outsideIngest

\* (isSubscribed && isProExceeded) || (!isSubscribed && isFreeExceeded)
Exceeded(isSubscribed, n) ==
  LET isProExceeded == n > PagesPerPdf("Pro")
      isFreeExceeded == n > PagesPerPdf("Free")
  IN  (isSubscribed /\ isProExceeded) \/ (~isSubscribed /\ isFreeExceeded)

\* if (exceeded) { await db.file.update({ uploadStatus: "FAILED" }) }
\* there is no return after the update: control falls through to the indexing
PolicyCheck(p) ==
  /\ pc[p] = "policy"
  /\ did' = [did EXCEPT ![p] = @ \cup {"policy"}]
  /\ IF Exceeded(upload[ikey[p]].isSubscribed, pagesAmt[p])
       THEN \E ok \in BOOLEAN :
              IF ok /\ RowExists(created[p])
                THEN /\ files' = WithStatus(created[p], "FAILED")
                     /\ wrote' = [wrote EXCEPT ![p] = Append(@, "FAILED")]
                     /\ pc' = [pc EXCEPT ![p] = "index"]
                ELSE /\ pc' = [pc EXCEPT ![p] = "catch"]
                     /\ UNCHANGED << files, wrote >>
       ELSE /\ pc' = [pc EXCEPT ![p] = "index"]
            /\ UNCHANGED << files, wrote >>
  /\ UNCHANGED << nextFileId, upserts, upload >>
  /\ UNCHANGED << ikey, dupOf, seqInv, created, pagesAmt >>
  /\ UNCHANGED outsideIngest

\* IndexDocs going on without the write
IndexDocs_NoWrite(p) ==
  /\ pc[p] = "index"
  /\ did' = [did EXCEPT ![p] = @ \cup {"index"}]
  /\ pc' = [pc EXCEPT ![p] = "success"]
  /\ UNCHANGED << files, nextFileId, upload, upserts >>
  /\ UNCHANGED << ikey, dupOf, seqInv, created, pagesAmt, wrote >>
  /\ UNCHANGED outsideIngest

\* IndexDocs writing every document under one namespace
IndexDocs_OneNamespace(p) ==
  /\ pc[p] = "index"
  /\ did' = [did EXCEPT ![p] = @ \cup {"index"}]
  /\ \E ok \in BOOLEAN :
       IF ok
         THEN /\ upserts' = upserts \cup
                    { [ns |-> FileIds[1], by |-> p, pages |-> pagesAmt[p]] }
              /\ pc' = [pc EXCEPT ![p] = "success"]
         ELSE /\ pc' = [pc EXCEPT ![p] = "catch"]
              /\ UNCHANGED upserts
  /\ UNCHANGED << files, nextFileId, upload >>
  /\ UNCHANGED << ikey, dupOf, seqInv, created, pagesAmt, wrote >>
  /\ UNCHANGED outsideIngest

\* await PineconeStore.fromDocuments(pageLevelDocs, embeddings,
\*                                   { pineconeIndex, namespace: createdFile.id })
IndexDocs(p) ==
  /\ pc[p] = "index"
  /\ did' = [did EXCEPT ![p] = @ \cup {"index"}]
  /\ \E ok \in BOOLEAN :
       IF ok
         THEN /\ upserts' = upserts \cup
                    { [ns |-> created[p], by |-> p, pages |-> pagesAmt[p]] }
              /\ pc' = [pc EXCEPT ![p] = "success"]
         ELSE /\ pc' = [pc EXCEPT ![p] = "catch"]
              /\ UNCHANGED upserts
  /\ UNCHANGED << files, nextFileId, upload >>
  /\ UNCHANGED << ikey, dupOf, seqInv, created, pagesAmt, wrote >>
  /\ UNCHANGED outsideIngest

\* await db.file.update({ data: { uploadStatus: "SUCCESS" }, where: { id } })
MarkSuccess(p) ==
  /\ pc[p] = "success"
  /\ \E ok \in BOOLEAN :
       IF ok /\ RowExists(created[p])
         THEN /\ files' = WithStatus(created[p], "SUCCESS")
              /\ wrote' = [wrote EXCEPT ![p] = Append(@, "SUCCESS")]
              /\ pc' = [pc EXCEPT ![p] = "done"]
         ELSE /\ pc' = [pc EXCEPT ![p] = "catch"]
              /\ UNCHANGED << files, wrote >>
  /\ UNCHANGED << nextFileId, upserts, upload >>
  /\ UNCHANGED << ikey, dupOf, seqInv, created, pagesAmt, did >>
  /\ UNCHANGED outsideIngest

\* catch (err) { await db.file.update({ data: { uploadStatus: "FAILED" } }) }
\* a rejected update inside the catch rejects the handler
CatchMarkFailed(p) ==
  /\ pc[p] = "catch"
  /\ \E ok \in BOOLEAN :
       IF ok /\ RowExists(created[p])
         THEN /\ files' = WithStatus(created[p], "FAILED")
              /\ wrote' = [wrote EXCEPT ![p] = Append(@, "FAILED")]
              /\ pc' = [pc EXCEPT ![p] = "done"]
         ELSE /\ pc' = [pc EXCEPT ![p] = "thrown"]
              /\ UNCHANGED << files, wrote >>
  /\ UNCHANGED << nextFileId, upserts, upload >>
  /\ UNCHANGED << ikey, dupOf, seqInv, created, pagesAmt, did >>
  /\ UNCHANGED outsideIngest

\* ------------------------------------------------------------------------
\* appRouter.deleteFile
\* ------------------------------------------------------------------------
\* the tRPC calls that may be in flight together
ApiCalls == {"c1", "c2"}

\* a call that is not waiting
NoPend ==
  [op |-> "none", stage |-> "none", session |-> "null", target |-> None,
   limit |-> Undefined, cursor |-> Undefined, file |-> {}]

\* the deleteFile call followed next to the invocations
DelCall == "c1"

\* deleteFile is called: the request reaches isAuth, which waits for
\* getUser(). What the call answers is followed with the other procedures
\* below; here the call is followed for what it does to the File table
\* (next to two invocations the calls followed are those an owner makes
\* for a stored document, next to one invocation those of any session)
DeleteCall(c, session, id) ==
  /\ pend[c].op = "none"
  /\ pend' = [pend EXCEPT ![c] =
       [op |-> "deleteFile", stage |-> "getUser", session |-> session,
        target |-> id, limit |-> Undefined, cursor |-> Undefined, file |-> {}]]
  /\ UNCHANGED << ingestVars, chatVars, pageVars, planVars, api, uiVars >>

\* isAuth once getUser() has answered: UNAUTHORIZED without a user id, else
\* the resolver runs up to its findFirst
DeleteAuth(c) ==
  /\ pend[c].op = "deleteFile"
  /\ pend[c].stage = "getUser"
  /\ pend' = IF pend[c].session \in Users
               THEN [pend EXCEPT ![c].stage = "findFirst"]
               ELSE [pend EXCEPT ![c] = NoPend]
  /\ UNCHANGED << ingestVars, chatVars, pageVars, planVars, api, uiVars >>

\* const file = await db.file.findFirst({ where: { id, userId } });
\* if (!file) throw NOT_FOUND; the call of an owner goes on to the delete
DeleteFind(c) ==
  /\ pend[c].op = "deleteFile"
  /\ pend[c].stage = "findFirst"
  /\ pend' = IF OwnedFile(pend[c].target, pend[c].session)
               THEN [pend EXCEPT ![c].stage = "delete"]
               ELSE [pend EXCEPT ![c] = NoPend]
  /\ UNCHANGED << ingestVars, chatVars, pageVars, planVars, api, uiVars >>

\* await db.file.delete({ where: { id } }); return file
\* the delete of a row that is gone rejects and leaves the table as it is
DeleteRow(c) ==
  /\ pend[c].op = "deleteFile"
  /\ pend[c].stage = "delete"
  /\ files' = { f \in files : f.id # pend[c].target }
  /\ pend' = [pend EXCEPT ![c] = NoPend]
  /\ UNCHANGED << nextFileId, upserts, upload, local >>
  /\ UNCHANGED << chatVars, pageVars, planVars, api, uiVars >>

\* ------------------------------------------------------------------------
\* Specification of the ingestion pipeline
\* ------------------------------------------------------------------------
\* no chat request is made
ChatLocalIdle ==
  /\ rpc = [r \in Reqs |-> "idle"]
  /\ ruser = [r \in Reqs |-> "null"]
  /\ rfile = [r \in Reqs |-> None]
  /\ rtext = [r \in Reqs |-> << >>]
  /\ nresults = [r \in Reqs |-> 0]
  /\ prev = [r \in Reqs |-> << >>]
  /\ resp = [r \in Reqs |-> "none"]
  /\ sent = [r \in Reqs |-> << >>]
  /\ acc = [r \in Reqs |-> << >>]

\* no message is stored
ChatIdle ==
  /\ messages = {}
  /\ nextMsgId = 1
  /\ clock = 1
  /\ ChatLocalIdle

\* the message list is not being read
PageIdle ==
  /\ pgLimit = 1
  /\ pgLoaded = FALSE
  /\ pgPages = << >>
  /\ pgNext = Undefined
  /\ pgCursor = Undefined

\* the middleware has not run
NoMeta ==
  [state |-> "none", userId |-> None, plan |-> "none", isSubscribed |-> FALSE,
   dbRead |-> FALSE, row |-> {}]

\* no webhook request has been received
NoHook ==
  [state |-> "none", chunks |-> 0, type |-> "none", priceId |-> "null",
   periodEnd |-> {}]

\* no upload is being admitted
PlanIdle ==
  /\ acct = [session |-> "null", dbUser |-> {}, getUser |-> "user"]
  /\ pdfPages = 0
  /\ meta = NoMeta
  /\ rejected = "none"
  /\ hook = NoHook
  /\ authcb = "none"

\* no procedure has been called
NoCall ==
  [op |-> "none", session |-> "null", target |-> None, cursor |-> Undefined,
   owner |-> None, res |-> [code |-> "none"], miss |-> [code |-> "none"],
   db |-> FALSE, changed |-> FALSE]

ApiIdle ==
  /\ api = NoCall
  /\ pend = [c \in ApiCalls |-> NoPend]

\* no ChatWrapper is mounted
PollIdle == poll = [user |-> "u1", status |-> "none"]

\* the sends the chat input makes in a run
Sends == {"s1", "s2"}

\* the infinite query has no data
NoData == [defined |-> FALSE, pages |-> << >>]

\* no fetch of the infinite query is in flight
NoFetch ==
  [kind |-> "none", stage |-> "none", want |-> 0, pages |-> << >>,
   shared |-> FALSE]

\* no chat is open
ClientIdle ==
  /\ cache = NoData
  /\ plainCache = [defined |-> FALSE, messages |-> << >>]
  /\ input = << >>
  /\ backup = << >>
  /\ srv = << >>
  /\ refetching = FALSE
  /\ cstage = [s \in Sends |-> "idle"]
  /\ ctext = [s \in Sends |-> << >>]
  /\ cacc = [s \in Sends |-> << >>]
  /\ ctxPrev = [s \in Sends |-> << >>]
  /\ cbefore = [s \in Sends |-> NoData]
  /\ sreq = [s \in Sends |-> "unsent"]
  /\ sout = [s \in Sends |-> << >>]
  /\ fetched = NoFetch
  /\ isLoading = FALSE

\* the toasts made in a run
MaxToasts == 3

\* the toast ids of a run
ToastIds == 1..MaxToasts

\* no toast was ever made
ToastIdle ==
  /\ toasts = << >>
  /\ toastTimeouts = {}
  /\ pending = [i \in ToastIds |-> 0]
  /\ count = 0
  /\ lastAction = [type |-> "none", toastId |-> Undefined, before |-> << >>]

\* the browser shows nothing
UiIdle == PollIdle /\ ClientIdle /\ ToastIdle

\* nothing but the subsystem under study is active
OthersIdle == PlanIdle /\ ApiIdle /\ UiIdle

\* no upload-completion invocation is made
IngestIdle ==
  /\ pc = [p \in Slots |-> "idle"]
  /\ ikey = [p \in Slots |-> "k1"]
  /\ dupOf = [p \in Slots |-> None]
  /\ seqInv = [p \in Slots |-> FALSE]
  /\ created = [p \in Slots |-> None]
  /\ pagesAmt = [p \in Slots |-> 0]
  /\ wrote = [p \in Slots |-> << >>]
  /\ did = [p \in Slots |-> {}]

Init ==
  /\ ChatIdle
  /\ PageIdle
  /\ OthersIdle
  /\ IngestIdle
  /\ files = {}
  /\ nextFileId = 1
  /\ upserts = {}
  /\ upload \in { u \in [Keys -> PlanCases] : u["k2"] = FreeAtLimit }

Next ==
  \/ \E p \in Slots : Invoke(p)
  \/ \E p \in Slots : InvokeUnchecked(p)
  \/ \E p \in Slots : FindExisting(p)
  \/ \E p \in Slots : CreateFile(p)
  \/ \E p \in Slots : Fetch(p)
  \/ \E p \in Slots : Blob(p)
  \/ \E p \in Slots : Parse(p)
  \/ \E p \in Slots : PolicyCheck(p)
  \/ \E p \in Slots : IndexDocs(p)
  \/ \E p \in Slots : MarkSuccess(p)
  \/ \E p \in Slots : CatchMarkFailed(p)
  \/ \E f \in files : DeleteCall(DelCall, f.userId, f.id)
  \/ DeleteAuth(DelCall)
  \/ DeleteFind(DelCall)
  \/ DeleteRow(DelCall)

Spec == Init /\ [][Next]_vars

\* the steps of the invocation of one slot
HandlerStep(p) ==
  \/ Invoke(p)
  \/ InvokeUnchecked(p)
  \/ FindExisting(p)
  \/ CreateFile(p)
  \/ Fetch(p)
  \/ Blob(p)
  \/ Parse(p)
  \/ PolicyCheck(p)
  \/ IndexDocs(p)
  \/ MarkSuccess(p)
  \/ CatchMarkFailed(p)

\* the slot of the invocation followed on its own
Solo == "a"

\* ------------------------------------------------------------------------
\* Properties of the ingestion pipeline
\* ------------------------------------------------------------------------
Terminal == {"SUCCESS", "FAILED"}

Finished(p) == pc[p] \in {"done", "thrown"}

\* the pages-per-PDF limit of the plan of an upload
PlanLimit(k) ==
  IF upload[k].isSubscribed THEN PagesPerPdf("Pro") ELSE PagesPerPdf("Free")

\* C1: once an invocation has written SUCCESS or FAILED to its document, every
\* later status write to that document writes the same status; a document
\* marked FAILED is never afterwards marked SUCCESS.
C1_StatusMonotonic ==
  \A p \in Slots : \A i, j \in 1..Len(wrote[p]) :
    (i < j /\ wrote[p][i] \in Terminal) => wrote[p][j] = wrote[p][i]

\* C2: when the parsed page count exceeds the limit of the caller's plan, no
\* index write is made under the document's namespace, and once the handler
\* has returned the document's status is FAILED.
C2_OverLimitFailsUnindexed ==
  \A p \in Slots :
    (created[p] # None /\ pagesAmt[p] > PlanLimit(ikey[p])) =>
      /\ \A u \in upserts : u.ns # created[p]
      /\ (pc[p] = "done" /\ RowExists(created[p])) =>
           FileRow(created[p]).uploadStatus = "FAILED"

\* C3: after the handler has returned or thrown, the document it created is
\* not in PROCESSING, whatever the outcomes of fetch, parse, policy check,
\* indexing and the status writes were.
C3_NoStuckProcessing ==
  \A p \in Slots :
    (Finished(p) /\ created[p] # None /\ RowExists(created[p])) =>
      FileRow(created[p]).uploadStatus \in Terminal

\* C4: an invocation made, with no other invocation running, for a key whose
\* row exists creates no row, writes no status, makes no fetch, parse or index
\* call, and leaves exactly one row and at most one chunk set for the key.
C4_SequentialIdempotent ==
  \A p \in Slots :
    (pc[p] # "idle" /\ seqInv[p] /\ dupOf[p] # None /\ RowExists(dupOf[p])) =>
      /\ created[p] = None
      /\ wrote[p] = << >>
      /\ did[p] \cap {"fetch", "parse", "policy", "index"} = {}
      /\ \A u \in upserts : u.by # p
      /\ Cardinality({ f \in files : f.key = ikey[p] }) = 1
      /\ Cardinality({ u \in upserts : u.ns = dupOf[p] }) <= 1

\* a second invocation has returned after the first one finished with SUCCESS
C4_Witness ==
  \E p, q \in Slots :
    /\ p # q /\ pc[p] = "done" /\ pc[q] = "done"
    /\ seqInv[p] /\ dupOf[p] # None /\ dupOf[p] = created[q]
    /\ RowExists(dupOf[p]) /\ FileRow(dupOf[p]).uploadStatus = "SUCCESS"
    /\ \E u \in upserts : u.ns = dupOf[p]

\* C5: of two invocations for the same key, the one that created no row has
\* returned without an error, having made no fetch, no index write and no
\* status write, and at most one row holds the key.
C5_ConcurrentDuplicateClean ==
  \A p, q \in Slots :
    (p # q /\ ikey[p] = ikey[q] /\ Finished(p) /\ pc[q] # "idle"
       /\ "find" \in did[p] /\ "find" \in did[q]
       /\ created[p] = None /\ created[q] # None) =>
      /\ pc[p] = "done"
      /\ did[p] \cap {"fetch", "parse", "index"} = {}
      /\ wrote[p] = << >>
      /\ Cardinality({ f \in files : f.key = ikey[p] }) <= 1

\* ------------------------------------------------------------------------
\* POST /api/message, one action per await, and the completion stream
\* ------------------------------------------------------------------------
\* similaritySearch(message, 4)
TopK == 4

\* take: 6 of the prevMessage query
HistoryWindow == 6

Min(a, b) == IF a <= b THEN a ELSE b

RECURSIVE Flatten(_)
\* the concatenation, in order, of a sequence of strings
Flatten(ss) == IF ss = << >> THEN << >> ELSE Head(ss) \o Flatten(Tail(ss))

RECURSIVE SortedAsc(_)
\* orderBy: { createdAt: "asc" }
SortedAsc(S) ==
  IF S = {} THEN << >>
  ELSE LET m == CHOOSE x \in S : \A y \in S : x.createdAt <= y.createdAt
       IN  << m >> \o SortedAsc(S \ {m})

RECURSIVE SortedDesc(_)
\* orderBy: { createdAt: "desc" }
SortedDesc(S) ==
  IF S = {} THEN << >>
  ELSE LET m == CHOOSE x \in S : \A y \in S : x.createdAt >= y.createdAt
       IN  << m >> \o SortedDesc(S \ {m})

\* db.message.findMany({ where: { fileId }, orderBy: { createdAt }, take, cursor }):
\* the rows of the file in the order asked, from the cursor row on (the cursor
\* row included), at most `take` of them
FindManyMessages(fileId, dir, take, cursor) ==
  LET sel == { m \in messages : m.fileId = fileId }
      rows == IF dir = "asc" THEN SortedAsc(sel) ELSE SortedDesc(sel)
      from == IF cursor = Undefined THEN 1
              ELSE IF \E i \in 1..Len(rows) : rows[i].id = cursor
                     THEN CHOOSE i \in 1..Len(rows) : rows[i].id = cursor
                     ELSE Len(rows) + 1
  IN  SubSeq(rows, from, Min(Len(rows), from + take - 1))

RECURSIVE PagesIn(_)
PagesIn(U) ==
  IF U = {} THEN 0
  ELSE LET u == CHOOSE x \in U : TRUE IN u.pages + PagesIn(U \ {u})

\* the chunks stored under a namespace: one per indexed page
ChunkCount(ns) == PagesIn({ u \in upserts : u.ns = ns })

\* the row db.message.create inserts
NewMessage(r, userId, isUser, text) ==
  [id |-> nextMsgId, fileId |-> rfile[r], userId |-> userId,
   isUserMessage |-> isUser, text |-> text, createdAt |-> clock, by |-> r]

\* a request arrives: const body = await req.json()
PostStart(r) ==
  /\ rpc[r] = "idle"
  /\ \E u \in Sessions, f \in {"f1", "f2", "f9"}, q \in Questions :
       /\ ruser' = [ruser EXCEPT ![r] = u]
       /\ rfile' = [rfile EXCEPT ![r] = f]
       /\ rtext' = [rtext EXCEPT ![r] = q]
  /\ rpc' = [rpc EXCEPT ![r] = "auth"]
  /\ UNCHANGED << messages, nextMsgId, clock, nresults, prev, resp, sent, acc >>
  /\ UNCHANGED outsideChat

\* const user = await getUser(); const { id: userId } = user;
\* if (!userId) return new Response("Unauthorized", { status: 401 });
\* destructuring a null user throws
PostAuth(r) ==
  /\ rpc[r] = "auth"
  /\ CASE ruser[r] = "null" ->
            /\ rpc' = [rpc EXCEPT ![r] = "done"]
            /\ resp' = [resp EXCEPT ![r] = "500"]
       [] ruser[r] = "noid" ->
            /\ rpc' = [rpc EXCEPT ![r] = "done"]
            /\ resp' = [resp EXCEPT ![r] = "401"]
       [] OTHER ->
            /\ rpc' = [rpc EXCEPT ![r] = "findFile"]
            /\ UNCHANGED resp
  /\ UNCHANGED << messages, nextMsgId, clock, ruser, rfile, rtext, nresults, prev, sent, acc >>
  /\ UNCHANGED outsideChat

\* const file = await db.file.findFirst({ where: { id: fileId, userId } });
\* if (!file) return new Response("Not found", { status: 404 });
PostFindFile(r) ==
  /\ rpc[r] = "findFile"
  /\ IF OwnedFile(rfile[r], ruser[r])
       THEN /\ rpc' = [rpc EXCEPT ![r] = "createMsg"]
            /\ UNCHANGED resp
       ELSE /\ rpc' = [rpc EXCEPT ![r] = "done"]
            /\ resp' = [resp EXCEPT ![r] = "404"]
  /\ UNCHANGED << messages, nextMsgId, clock, ruser, rfile, rtext, nresults, prev, sent, acc >>
  /\ UNCHANGED outsideChat

\* PostCreateUserMessage without the create
PostCreateUserMessage_Skip(r) ==
  /\ rpc[r] = "createMsg"
  /\ rpc' = [rpc EXCEPT ![r] = "openIndex"]
  /\ UNCHANGED << messages, nextMsgId, clock >>
  /\ UNCHANGED << ruser, rfile, rtext, nresults, prev, resp, sent, acc >>
  /\ UNCHANGED outsideChat

\* await db.message.create({ data: { text: message, isUserMessage: true, userId, fileId } })
PostCreateUserMessage(r) ==
  /\ rpc[r] = "createMsg"
  /\ messages' = messages \cup { NewMessage(r, ruser[r], TRUE, rtext[r]) }
  /\ nextMsgId' = nextMsgId + 1
  /\ clock' = clock + 1
  /\ rpc' = [rpc EXCEPT ![r] = "openIndex"]
  /\ UNCHANGED << ruser, rfile, rtext, nresults, prev, resp, sent, acc >>
  /\ UNCHANGED outsideChat

\* const vectorStore = await PineconeStore.fromExistingIndex(embeddings,
\*   { pineconeIndex, namespace: file.id })
PostFromExistingIndex(r) ==
  /\ rpc[r] = "openIndex"
  /\ rpc' = [rpc EXCEPT ![r] = "search"]
  /\ UNCHANGED << messages, nextMsgId, clock >>
  /\ UNCHANGED << ruser, rfile, rtext, nresults, prev, resp, sent, acc >>
  /\ UNCHANGED outsideChat

\* PostSimilaritySearch rejecting when the namespace holds nothing
PostSimilaritySearch_FailOnEmpty(r) ==
  /\ rpc[r] = "search"
  /\ nresults' = [nresults EXCEPT ![r] = Min(TopK, ChunkCount(rfile[r]))]
  /\ IF ChunkCount(rfile[r]) = 0
       THEN /\ rpc' = [rpc EXCEPT ![r] = "done"]
            /\ resp' = [resp EXCEPT ![r] = "500"]
       ELSE /\ rpc' = [rpc EXCEPT ![r] = "prev"]
            /\ UNCHANGED resp
  /\ UNCHANGED << messages, nextMsgId, clock, ruser, rfile, rtext, prev, sent, acc >>
  /\ UNCHANGED outsideChat

\* const results = await vectorStore.similaritySearch(message, 4)
\* over the namespace file.id
PostSimilaritySearch(r) ==
  /\ rpc[r] = "search"
  /\ nresults' = [nresults EXCEPT ![r] = Min(TopK, ChunkCount(rfile[r]))]
  /\ rpc' = [rpc EXCEPT ![r] = "prev"]
  /\ UNCHANGED << messages, nextMsgId, clock, ruser, rfile, rtext, prev, resp, sent, acc >>
  /\ UNCHANGED outsideChat

\* PostPrevMessages reading the whole thread
PostPrevMessages_NoTake(r) ==
  /\ rpc[r] = "prev"
  /\ prev' = [prev EXCEPT ![r] =
       LET rows == FindManyMessages(rfile[r], "asc", Cardinality(messages), Undefined)
       IN  [i \in 1..Len(rows) |-> rows[i].id]]
  /\ rpc' = [rpc EXCEPT ![r] = "complete"]
  /\ UNCHANGED << messages, nextMsgId, clock, ruser, rfile, rtext, nresults, resp, sent, acc >>
  /\ UNCHANGED outsideChat

\* const prevMessage = await db.message.findMany({ where: { fileId },
\*   orderBy: { createdAt: "asc" }, take: 6 })
PostPrevMessages(r) ==
  /\ rpc[r] = "prev"
  /\ prev' = [prev EXCEPT ![r] =
       LET rows == FindManyMessages(rfile[r], "asc", HistoryWindow, Undefined)
       IN  [i \in 1..Len(rows) |-> rows[i].id]]
  /\ rpc' = [rpc EXCEPT ![r] = "complete"]
  /\ UNCHANGED << messages, nextMsgId, clock, ruser, rfile, rtext, nresults, resp, sent, acc >>
  /\ UNCHANGED outsideChat

\* PostCompletionCreate persisting an empty answer when the call fails
PostCompletionCreate_PersistOnFail(r) ==
  /\ rpc[r] = "complete"
  /\ \E ok \in BOOLEAN :
       IF ok
         THEN /\ rpc' = [rpc EXCEPT ![r] = "streaming"]
              /\ resp' = [resp EXCEPT ![r] = "200"]
              /\ UNCHANGED << messages, nextMsgId, clock >>
         ELSE /\ rpc' = [rpc EXCEPT ![r] = "failed"]
              /\ resp' = [resp EXCEPT ![r] = "500"]
              /\ messages' = messages \cup { NewMessage(r, ruser[r], FALSE, << >>) }
              /\ nextMsgId' = nextMsgId + 1
              /\ clock' = clock + 1
  /\ UNCHANGED << ruser, rfile, rtext, nresults, prev, sent, acc >>
  /\ UNCHANGED outsideChat

\* const response = await openai.chat.completions.create({ stream: true, ... });
\* a rejected call rejects the handler; otherwise
\* return new StreamingTextResponse(OpenAIStream(response, { onCompletion }))
PostCompletionCreate(r) ==
  /\ rpc[r] = "complete"
  /\ \E ok \in BOOLEAN :
       IF ok
         THEN /\ rpc' = [rpc EXCEPT ![r] = "streaming"]
              /\ resp' = [resp EXCEPT ![r] = "200"]
         ELSE /\ rpc' = [rpc EXCEPT ![r] = "failed"]
              /\ resp' = [resp EXCEPT ![r] = "500"]
  /\ UNCHANGED << messages, nextMsgId, clock >>
  /\ UNCHANGED << ruser, rfile, rtext, nresults, prev, sent, acc >>
  /\ UNCHANGED outsideChat

\* StreamToken aggregating only the latest token
StreamToken_Overwrite(r) ==
  /\ rpc[r] = "streaming"
  /\ Len(sent[r]) < MaxTokens
  /\ \E t \in Tokens :
       /\ sent' = [sent EXCEPT ![r] = Append(@, t)]
       /\ acc' = [acc EXCEPT ![r] = t]
  /\ UNCHANGED << messages, nextMsgId, clock >>
  /\ UNCHANGED << rpc, ruser, rfile, rtext, nresults, prev, resp >>
  /\ UNCHANGED outsideChat

\* OpenAIStream: a token of the completion is forwarded to the caller and
\* appended to the aggregated completion
StreamToken(r) ==
  /\ rpc[r] = "streaming"
  /\ Len(sent[r]) < MaxTokens
  /\ \E t \in Tokens :
       /\ sent' = [sent EXCEPT ![r] = Append(@, t)]
       /\ acc' = [acc EXCEPT ![r] = @ \o t]
  /\ UNCHANGED << messages, nextMsgId, clock >>
  /\ UNCHANGED << rpc, ruser, rfile, rtext, nresults, prev, resp >>
  /\ UNCHANGED outsideChat

\* OpenAIStream: the completion ends; onCompletion(completion) runs
\* await db.message.create({ data: { text: completion, isUserMessage: false, ... } })
StreamEnd(r) ==
  /\ rpc[r] = "streaming"
  /\ messages' = messages \cup { NewMessage(r, ruser[r], FALSE, acc[r]) }
  /\ nextMsgId' = nextMsgId + 1
  /\ clock' = clock + 1
  /\ rpc' = [rpc EXCEPT ![r] = "closed"]
  /\ UNCHANGED << ruser, rfile, rtext, nresults, prev, resp, sent, acc >>
  /\ UNCHANGED outsideChat

\* OpenAIStream: the upstream iterator throws; the response stream errors.
\* The route registers onCompletion and nothing else (no onFinal, no
\* try/catch around the stream), and onCompletion runs only when the stream
\* is flushed at its end, so no create follows an upstream error
StreamError(r) ==
  /\ rpc[r] = "streaming"
  /\ rpc' = [rpc EXCEPT ![r] = "errored"]
  /\ UNCHANGED << messages, nextMsgId, clock >>
  /\ UNCHANGED << ruser, rfile, rtext, nresults, prev, resp, sent, acc >>
  /\ UNCHANGED outsideChat

\* two stored documents, one per user; only the first has indexed chunks
StoredRows ==
  { [id |-> "f1", key |-> "k1", userId |-> "u1", uploadStatus |-> "SUCCESS"],
    [id |-> "f2", key |-> "k2", userId |-> "u2", uploadStatus |-> "SUCCESS"] }

StoredFiles ==
  /\ files = StoredRows
  /\ nextFileId = Len(FileIds) + 1
  /\ upserts = { [ns |-> "f1", by |-> "a", pages |-> PagesPerPdf("Free")] }
  /\ upload = [k \in Keys |-> [isSubscribed |-> FALSE, pages |-> PagesPerPdf("Free")]]

\* the injective maps of 1..n onto 1..n
Perms(n) == { f \in [1..n -> 1..n] : \A i, j \in 1..n : f[i] = f[j] => i = j }

\* a Message table: n messages of document f1 whose ids are in no relation to
\* their creation times, and possibly a newer message of document f2
MessageTable(n, at, other) ==
  { [id |-> i, fileId |-> "f1", userId |-> "u1", isUserMessage |-> (i % 2 = 1),
     text |-> << >>, createdAt |-> at[i], by |-> None] : i \in 1..n }
  \cup
  (IF other
     THEN { [id |-> n + 1, fileId |-> "f2", userId |-> "u2", isUserMessage |-> TRUE,
             text |-> << >>, createdAt |-> n + 1, by |-> None] }
     ELSE {})

\* a thread longer than the history window
LongHistory == HistoryWindow + 1

\* document f1 starts with no message or with a thread longer than the window
ChatInit ==
  /\ ChatLocalIdle
  /\ \E n \in {0, LongHistory} :
       /\ messages = MessageTable(n, [i \in 1..n |-> i], FALSE)
       /\ nextMsgId = n + 1
       /\ clock = n + 1
  /\ PageIdle
  /\ OthersIdle
  /\ IngestIdle
  /\ StoredFiles

ChatNext ==
  \/ \E r \in Reqs : PostStart(r)
  \/ \E r \in Reqs : PostAuth(r)
  \/ \E r \in Reqs : PostFindFile(r)
  \/ \E r \in Reqs : PostCreateUserMessage(r)
  \/ \E r \in Reqs : PostFromExistingIndex(r)
  \/ \E r \in Reqs : PostSimilaritySearch(r)
  \/ \E r \in Reqs : PostPrevMessages(r)
  \/ \E r \in Reqs : PostCompletionCreate(r)
  \/ \E r \in Reqs : StreamToken(r)
  \/ \E r \in Reqs : StreamEnd(r)
  \/ \E r \in Reqs : StreamError(r)

ChatSpec == ChatInit /\ [][ChatNext]_vars

\* ------------------------------------------------------------------------
\* Properties of the chat route
\* ------------------------------------------------------------------------
UserMessagesOf(r) == { m \in messages : m.by = r /\ m.isUserMessage }

GeneratedOf(r) == { m \in messages : m.by = r /\ ~m.isUserMessage }

\* the completion request of the exchange has been issued
CompletionRequested(r) == rpc[r] \in {"streaming", "closed", "errored", "failed"}

\* C6: whenever the completion request of an exchange has been issued, the
\* user's message of that exchange is stored.
C6_UserMessageBeforeCompletion ==
  \A r \in Reqs :
    CompletionRequested(r) =>
      \E m \in UserMessagesOf(r) :
        m.text = rtext[r] /\ m.fileId = rfile[r] /\ m.userId = ruser[r]

\* a completion request is in flight
C6_Witness == \E r \in Reqs : rpc[r] = "streaming" /\ sent[r] = << >>

\* C7: when the stream has produced at least one token and ended cleanly,
\* exactly one generated message of the exchange is stored and its text is the
\* concatenation, in order, of the tokens forwarded to the caller.
C7_CleanEndPersistsConcatenation ==
  \A r \in Reqs :
    (rpc[r] = "closed" /\ Len(sent[r]) >= 1) =>
      /\ Cardinality(GeneratedOf(r)) = 1
      /\ \A m \in GeneratedOf(r) : m.text = Flatten(sent[r])

\* a stream of two different tokens has ended cleanly
C7_Witness ==
  \E r \in Reqs :
    /\ rpc[r] = "closed" /\ Len(sent[r]) >= 2
    /\ sent[r][1] # sent[r][2]
    /\ GeneratedOf(r) # {}

\* the completion failed before any token was produced
FailedBeforeToken(r) ==
  \/ rpc[r] = "failed"
  \/ rpc[r] = "errored" /\ sent[r] = << >>

\* C8: when the completion fails before any token, the caller gets the error
\* (status 500, or an errored stream), no generated message is stored and the
\* user message of the exchange is still stored.
C8_FailBeforeTokenKeepsQuestion ==
  \A r \in Reqs :
    FailedBeforeToken(r) =>
      /\ rpc[r] = "failed" => resp[r] = "500"
      /\ GeneratedOf(r) = {}
      /\ \E m \in UserMessagesOf(r) : m.text = rtext[r]

\* the completion call of an exchange was rejected
C8_Witness == \E r \in Reqs : rpc[r] = "failed" /\ UserMessagesOf(r) # {}

\* C9: after n >= 1 forwarded tokens and an upstream error, one generated
\* message holding the concatenation of the n tokens is stored.
C9_ErrorPersistsPartial ==
  \A r \in Reqs :
    (rpc[r] = "errored" /\ Len(sent[r]) >= 1) =>
      /\ Cardinality(GeneratedOf(r)) = 1
      /\ \A m \in GeneratedOf(r) : m.text = Flatten(sent[r])

\* ------------------------------------------------------------------------
\* appRouter.getFileMessages and the infinite query of Messages
\* ------------------------------------------------------------------------
\* config/infinite-query.ts
INFINITE_QUERY_LIMIT == 10

\* the findMany treating the cursor row as already returned
ReadMessages_SkipCursor(fileId, limitIn, cursor) ==
  LET limit == IF limitIn = Undefined THEN INFINITE_QUERY_LIMIT ELSE limitIn
      found == FindManyMessages(fileId, "desc", limit + 2, cursor)
      rows == IF cursor = Undefined \/ found = << >>
                THEN SubSeq(found, 1, Min(Len(found), limit + 1))
                ELSE Tail(found)
  IN  IF Len(rows) > limit
        THEN [code |-> "OK", messages |-> SubSeq(rows, 1, Len(rows) - 1),
              nextCursor |-> rows[Len(rows)].id]
        ELSE [code |-> "OK", messages |-> rows, nextCursor |-> Undefined]

\* the extra row handed out with the page
ReadMessages_KeepExtra(fileId, limitIn, cursor) ==
  LET limit == IF limitIn = Undefined THEN INFINITE_QUERY_LIMIT ELSE limitIn
      rows == FindManyMessages(fileId, "desc", limit + 1, cursor)
  IN  IF Len(rows) > limit
        THEN [code |-> "OK", messages |-> rows, nextCursor |-> rows[Len(rows)].id]
        ELSE [code |-> "OK", messages |-> rows, nextCursor |-> Undefined]

\* the second half of getFileMessages, run once the file was found:
\* findMany({ take: limit + 1, where: { fileId }, orderBy: { createdAt: "desc" }, cursor });
\* if (messages.length > limit) { nextCursor = messages.pop().id }
ReadMessages(fileId, limitIn, cursor) ==
  LET limit == IF limitIn = Undefined THEN INFINITE_QUERY_LIMIT ELSE limitIn
      rows == FindManyMessages(fileId, "desc", limit + 1, cursor)
  IN  IF Len(rows) > limit
        THEN [code |-> "OK", messages |-> SubSeq(rows, 1, Len(rows) - 1),
              nextCursor |-> rows[Len(rows)].id]
        ELSE [code |-> "OK", messages |-> rows, nextCursor |-> Undefined]

\* const limit = input.limit ?? INFINITE_QUERY_LIMIT;
\* NOT_FOUND unless the file is the caller's;
\* findMany({ take: limit + 1, where: { fileId }, orderBy: { createdAt: "desc" }, cursor });
\* if (messages.length > limit) { nextCursor = messages.pop().id }
GetFileMessages(userId, fileId, limitIn, cursor) ==
  IF ~OwnedFile(fileId, userId)
    THEN [code |-> "NOT_FOUND", messages |-> << >>, nextCursor |-> Undefined]
    ELSE ReadMessages(fileId, limitIn, cursor)

Ids(rows) == [i \in 1..Len(rows) |-> rows[i].id]

\* a thread longer than the default page
LongThread == INFINITE_QUERY_LIMIT + 2

\* the creation orders tried for a thread of n messages: every order up to
\* MaxMsgs messages, creation in id order for the long thread, none between
TimeOrders(n) ==
  IF n <= MaxMsgs THEN Perms(n)
  ELSE IF n = LongThread THEN { [i \in 1..n |-> i] }
  ELSE {}

\* ------------------------------------------------------------------------
\* Properties of the paginated read
\* ------------------------------------------------------------------------
\* the pages have been followed until nextCursor is undefined
PagedThrough == pgLoaded /\ pgNext = Undefined

\* C10: when the pages of a document have been followed until nextCursor is
\* undefined, the concatenated pages hold every message of the document
\* exactly once, newest first (the rows of a document have distinct createdAt).
C10_PaginationComplete ==
  PagedThrough =>
    Flatten(pgPages) = Ids(SortedDesc({ m \in messages : m.fileId = "f1" }))

\* five messages have been read in three pages
C10_Witness ==
  /\ PagedThrough
  /\ Len(pgPages) = 3
  /\ Len(Flatten(pgPages)) = 5
  /\ \E m \in messages : m.fileId = "f2"

\* the rows of document f1 from the cursor position onward, newest first:
\* the cursor row and every older row (all of them without a cursor)
RowsFrom(cursor) ==
  { m \in messages :
      /\ m.fileId = "f1"
      /\ \/ cursor = Undefined
         \/ \E k \in messages : k.id = cursor /\ m.createdAt <= k.createdAt }

\* C11: each getFileMessages call returns at most `limit` messages (10 when
\* no limit is given); it returns a nextCursor exactly when more than `limit`
\* rows exist from the cursor position onward, and the nextCursor is then the
\* id of the one extra row, which is withheld from the page.
C11_PageAndCursor ==
  pgLoaded =>
    LET limit == IF pgLimit = Undefined THEN 10 ELSE pgLimit
        rest == RowsFrom(pgCursor)
        page == pgPages[Len(pgPages)]
    IN  /\ Len(page) <= limit
        /\ (pgNext # Undefined) <=> (Cardinality(rest) > limit)
        /\ pgNext # Undefined =>
              /\ \E m \in rest :
                    /\ m.id = pgNext
                    /\ Cardinality({ x \in rest : x.createdAt > m.createdAt }) = limit
              /\ \A i \in 1..Len(page) : page[i] # pgNext

\* a call without a limit has returned ten of twelve messages and a cursor
C11_Witness ==
  /\ pgLoaded
  /\ pgLimit = Undefined
  /\ Len(pgPages) = 1
  /\ Len(pgPages[1]) = 10
  /\ pgNext # Undefined

\* document f1 has five messages and the query asks for pages of two
FiveByTwo ==
  /\ Cardinality({ m \in messages : m.fileId = "f1" }) = 5
  /\ pgLimit = 2

\* C12 as stated: with 5 messages and limit 2, the first call returns 2
\* messages and a nextCursor, two more calls return the rest without repeats,
\* and a final call made after those three returns an empty list with
\* nextCursor undefined.
C12_FinalCallEmpty ==
  (FiveByTwo /\ Len(pgPages) = 3) =>
    LET final == GetFileMessages("u1", "f1", pgLimit, pgNext)
    IN  /\ final.messages = << >>
        /\ final.nextCursor = Undefined

\* C12, amended: with 5 messages and limit 2, the first call returns 2
\* messages and a nextCursor, the second 2 more and a nextCursor, the third
\* the one remaining message with nextCursor undefined; the three pages hold
\* the five messages without repeats, and there is no cursor left to follow
\* (a call without cursor returns the first page again, never an empty list).
C12_ThreeCallsExhaust ==
  (FiveByTwo /\ pgLoaded) =>
    /\ Len(pgPages) <= 3
    /\ Len(pgPages[1]) = 2
    /\ Len(pgPages) = 1 => pgNext # Undefined
    /\ Len(pgPages) = 2 => Len(pgPages[2]) = 2 /\ pgNext # Undefined
    /\ Len(pgPages) = 3 =>
          /\ Len(pgPages[3]) = 1
          /\ pgNext = Undefined
          /\ Ids(GetFileMessages("u1", "f1", pgLimit, pgNext).messages) = pgPages[1]
    /\ LET all == Flatten(pgPages)
       IN  \A i, j \in 1..Len(all) : all[i] = all[j] => i = j
    /\ PagedThrough =>
          { Flatten(pgPages)[i] : i \in 1..Len(Flatten(pgPages)) }
            = { m.id : m \in { x \in messages : x.fileId = "f1" } }

\* the third call of the five-by-two scenario has returned
C12_Witness ==
  /\ FiveByTwo
  /\ Len(pgPages) = 3
  /\ pgNext = Undefined

\* ------------------------------------------------------------------------
\* Plan of the uploader: getUserSubscriptionPlan, the upload middleware and
\* the page-limit condition of onUploadComplete
\* ------------------------------------------------------------------------
\* 86_400_000: one day in milliseconds
DayMs == 86400000

\* Date.now() at the time of the call, counted from an origin four days back
Now == 4 * DayMs

\* stripePriceId of a User row: null, the empty string, the price of the Pro
\* plan, a price no plan has
PriceIds == { "null", "", PLANS[2].priceId, "price_other" }

\* stripeCurrentPeriodEnd of a User row, as a set: empty for null, else the
\* time: long past, a day ago to the millisecond, a moment ago, a day ahead
PeriodEnds ==
  { {} } \cup { {t} : t \in { Now - 2 * DayMs, Now - DayMs, Now - 1, Now + DayMs } }

\* stripeSubscriptionId of a User row: null, or the id of the subscription
SubscriptionIds == { "null", "sub_1" }

\* the User row db.user.create({ data: { id, email } }) stores
NewUser ==
  [stripePriceId |-> "null", stripeCurrentPeriodEnd |-> {},
   stripeSubscriptionId |-> "null"]

\* what db.user.findFirst({ where: { id } }) can return: no row, or a row
DbUsers ==
  { {} } \cup
  { {u} : u \in [stripePriceId : PriceIds, stripeCurrentPeriodEnd : PeriodEnds,
                 stripeSubscriptionId : SubscriptionIds] }

\* the page counts tried: at and just above the limit of each plan
PageCounts ==
  UNION { { PLANS[i].pagesPerPdf, PLANS[i].pagesPerPdf + 1 } : i \in 1..Len(PLANS) }

\* PLANS.find((plan) => plan.price.priceIds.test === priceId): its name
PlanByPrice(priceId) ==
  IF \E i \in 1..Len(PLANS) : PLANS[i].priceId = priceId
    THEN PLANS[CHOOSE i \in 1..Len(PLANS) :
                 /\ PLANS[i].priceId = priceId
                 /\ \A j \in 1..(i - 1) : PLANS[j].priceId # priceId].name
    ELSE "undefined"

\* isSubscribed = Boolean(stripePriceId && stripeCurrentPeriodEnd &&
\*                         stripeCurrentPeriodEnd.getTime() + 86_400_000 > Date.now())
IsSubscribed(u) ==
  /\ u.stripePriceId \notin { "null", "" }
  /\ \E t \in u.stripeCurrentPeriodEnd : t + DayMs > Now

\* if (isSubscribed && dbUser.stripeSubscriptionId): the subscription of the
\* row read is asked of Stripe
AsksStripe(dbUser) ==
  \E u \in dbUser : IsSubscribed(u) /\ u.stripeSubscriptionId # "null"

\* what getUser() gives at the one call site that does not await it
\* (const user = getUser()): the user, or a promise of the user, as the
\* Kinde package of the build has it
GetUserResults == { "user", "promise" }

\* const user = getUser(); if (!user.id) return Free;
\* dbUser = findFirst; if (!dbUser) return Free;
\* isSubscribed as above; plan = isSubscribed ? PLANS.find(by price id) : null;
\* if (isSubscribed && dbUser.stripeSubscriptionId)
\*   await stripe.subscriptions.retrieve(...)   (retrieved: it did not reject)
\* (user.id of a null user throws; the id of a promise is undefined)
GetUserSubscriptionPlan(session, dbUser, retrieved, getUser) ==
  IF getUser = "promise"
    THEN [state |-> "ok", plan |-> PLANS[1].name, isSubscribed |-> FALSE,
          dbRead |-> FALSE]
  ELSE IF session = "null"
    THEN [state |-> "thrown", plan |-> "none", isSubscribed |-> FALSE, dbRead |-> FALSE]
  ELSE IF session = "noid"
    THEN [state |-> "ok", plan |-> PLANS[1].name, isSubscribed |-> FALSE,
          dbRead |-> FALSE]
  ELSE IF dbUser = {}
    THEN [state |-> "ok", plan |-> PLANS[1].name, isSubscribed |-> FALSE,
          dbRead |-> TRUE]
  ELSE IF AsksStripe(dbUser) /\ ~retrieved
    THEN [state |-> "thrown", plan |-> "none", isSubscribed |-> FALSE, dbRead |-> TRUE]
  ELSE LET u == CHOOSE x \in dbUser : TRUE
           plan == IF IsSubscribed(u) THEN PlanByPrice(u.stripePriceId) ELSE "null"
       IN  [state |-> "ok", plan |-> plan, isSubscribed |-> IsSubscribed(u),
            dbRead |-> TRUE]

\* if (!user || !user.id) throw new Error("Unauthorized");
\* return { subscriptionPlan: await getUserSubscriptionPlan(), userId: user.id }
\* (row: the User row the plan was computed from)
UploadMiddleware(session, dbUser, retrieved, getUser) ==
  IF session \notin Users
    THEN [state |-> "thrown", userId |-> None, plan |-> "none",
          isSubscribed |-> FALSE, dbRead |-> FALSE, row |-> {}]
  ELSE LET sub == GetUserSubscriptionPlan(session, dbUser, retrieved, getUser)
       IN  [state |-> sub.state, userId |-> session, plan |-> sub.plan,
            isSubscribed |-> sub.isSubscribed, dbRead |-> sub.dbRead,
            row |-> IF sub.dbRead THEN dbUser ELSE {}]

\* the upload route runs its middleware for the caller, up to the first
\* database call: const user = await getUser(); Unauthorized without a user id;
\* getUserSubscriptionPlan returns Free at once when its getUser() gives a promise
MiddlewareGetUser ==
  /\ meta.state = "none"
  /\ meta' = IF acct.session \notin Users
               THEN UploadMiddleware(acct.session, {}, TRUE, acct.getUser)
             ELSE IF acct.getUser = "promise"
               THEN UploadMiddleware(acct.session, {}, TRUE, "promise")
               ELSE [NoMeta EXCEPT !.state = "findUser", !.userId = acct.session]
  /\ UNCHANGED << acct, pdfPages, rejected, hook, authcb >>
  /\ UNCHANGED outsidePlan

\* getUserSubscriptionPlan: await db.user.findFirst is answered with the row
\* stored now; the plan is returned unless Stripe is asked about it
MiddlewareFindUser ==
  /\ meta.state = "findUser"
  /\ meta' = IF AsksStripe(acct.dbUser)
               THEN [meta EXCEPT !.state = "retrieve", !.dbRead = TRUE,
                                 !.row = acct.dbUser]
               ELSE UploadMiddleware(acct.session, acct.dbUser, TRUE, "user")
  /\ UNCHANGED << acct, pdfPages, rejected, hook, authcb >>
  /\ UNCHANGED outsidePlan

\* getUserSubscriptionPlan: await stripe.subscriptions.retrieve is answered or
\* rejects; the plan is computed from the row read before
MiddlewareRetrieve ==
  /\ meta.state = "retrieve"
  /\ \E retrieved \in BOOLEAN :
       meta' = UploadMiddleware(meta.userId, meta.row, retrieved, "user")
  /\ UNCHANGED << acct, pdfPages, rejected, hook, authcb >>
  /\ UNCHANGED outsidePlan

\* onUploadComplete evaluates the page-limit condition on metadata.subscriptionPlan
CheckPageLimit ==
  /\ meta.state = "ok"
  /\ rejected = "none"
  /\ rejected' = IF Exceeded(meta.isSubscribed, pdfPages) THEN "yes" ELSE "no"
  /\ UNCHANGED << acct, pdfPages, meta, hook, authcb >>
  /\ UNCHANGED outsidePlan

\* the event types of the webhook: the two it acts on, and "ignored" for a
\* request it answers without a database call (bad signature: 400; no
\* metadata.userId or another event type: 200)
HookTypes == { "checkout.session.completed", "invoice.payment_succeeded", "ignored" }

\* subscription.items.data[0]?.price.id of the subscription Stripe returns
HookPrices == { PLANS[2].priceId, "price_other" }

\* subscription.current_period_end of the subscription Stripe returns
HookPeriodEnd == { Now + DayMs }

\* most chunks the body of a webhook request is read in
MaxBodyChunks == 1

\* POST of the Stripe webhook, sent by Stripe for the user id of the
\* uploader: buffer(request.body) waits for its first reader.read()
WebhookReceive ==
  /\ hook.state = "none"
  /\ hook' = [NoHook EXCEPT !.state = "reading"]
  /\ UNCHANGED << acct, pdfPages, meta, rejected, authcb >>
  /\ UNCHANGED outsidePlan

\* buffer(): ({ done, value } = await reader.read()) answers with a chunk,
\* which is kept, and the next read is awaited
WebhookReadChunk ==
  /\ hook.state = "reading"
  /\ hook.chunks < MaxBodyChunks
  /\ hook' = [hook EXCEPT !.chunks = @ + 1]
  /\ UNCHANGED << acct, pdfPages, meta, rejected, authcb >>
  /\ UNCHANGED outsidePlan

\* buffer(): reader.read() answers done; then constructEvent verifies the
\* body (400 on failure, as for an empty body), a session without
\* metadata.userId is answered 200, and for one of the two event types
\* stripe.subscriptions.retrieve(session.subscription) is awaited
WebhookConstructEvent ==
  /\ hook.state = "reading"
  /\ \E type \in HookTypes :
       /\ hook.chunks = 0 => type = "ignored"
       /\ hook' = IF type = "ignored"
                    THEN [hook EXCEPT !.state = "done", !.type = type]
                    ELSE [hook EXCEPT !.state = "retrieve", !.type = type]
  /\ UNCHANGED << acct, pdfPages, meta, rejected, authcb >>
  /\ UNCHANGED outsidePlan

\* const subscription = await stripe.subscriptions.retrieve(session.subscription)
\* has answered, and db.user.update is awaited (a rejected retrieve ends the
\* request)
WebhookRetrieve ==
  /\ hook.state = "retrieve"
  /\ \E price \in HookPrices, retrieved \in BOOLEAN :
       hook' = IF ~retrieved
                 THEN [hook EXCEPT !.state = "done"]
                 ELSE [hook EXCEPT !.state = "retrieved", !.priceId = price,
                                   !.periodEnd = HookPeriodEnd]
  /\ UNCHANGED << acct, pdfPages, meta, rejected, authcb >>
  /\ UNCHANGED outsidePlan

\* checkout.session.completed: db.user.update({ where: { id: metadata.userId },
\*   data: { stripeSubscriptionId, stripeCustomerId, stripePriceId,
\*           stripeCurrentPeriodEnd } })
\* invoice.payment_succeeded: db.user.update({ where: { stripeSubscriptionId:
\*   subscription.id }, data: { stripePriceId, stripeCurrentPeriodEnd } })
\* (an update that finds no row rejects and changes nothing)
WebhookUpdate ==
  /\ hook.state = "retrieved"
  /\ acct' = [acct EXCEPT !.dbUser =
       IF hook.type = "checkout.session.completed"
         THEN { [stripePriceId |-> hook.priceId,
                 stripeCurrentPeriodEnd |-> hook.periodEnd,
                 stripeSubscriptionId |-> "sub_1"] : u \in acct.dbUser }
         ELSE { IF u.stripeSubscriptionId = "sub_1"
                  THEN [u EXCEPT !.stripePriceId = hook.priceId,
                                 !.stripeCurrentPeriodEnd = hook.periodEnd]
                  ELSE u : u \in acct.dbUser }]
  /\ hook' = [hook EXCEPT !.state = "done"]
  /\ UNCHANGED << pdfPages, meta, rejected, authcb >>
  /\ UNCHANGED outsidePlan

\* authCallback up to its first database call: const user = await getUser();
\* if (!user.id || !user.email) throw UNAUTHORIZED (user.id of null throws)
AuthGetUser ==
  /\ authcb = "none"
  /\ authcb' = IF acct.session \in Users THEN "findUser" ELSE "thrown"
  /\ UNCHANGED << acct, pdfPages, meta, rejected, hook >>
  /\ UNCHANGED outsidePlan

\* const dbUser = await db.user.findFirst({ where: { id: user.id } });
\* if (!dbUser) the row is created next
AuthFindUser ==
  /\ authcb = "findUser"
  /\ authcb' = IF acct.dbUser = {} THEN "create" ELSE "done"
  /\ UNCHANGED << acct, pdfPages, meta, rejected, hook >>
  /\ UNCHANGED outsidePlan

\* await db.user.create({ data: { id: user.id, email: user.email } });
\* return { success: true }   (a create for an id that has a row rejects)
AuthCreateUser ==
  /\ authcb = "create"
  /\ IF acct.dbUser = {}
       THEN /\ acct' = [acct EXCEPT !.dbUser = { NewUser }]
            /\ authcb' = "done"
       ELSE /\ authcb' = "thrown"
            /\ UNCHANGED acct
  /\ UNCHANGED << pdfPages, meta, rejected, hook >>
  /\ UNCHANGED outsidePlan

PlanInit ==
  /\ ChatIdle
  /\ PageIdle
  /\ IngestIdle
  /\ ApiIdle
  /\ UiIdle
  /\ files = {}
  /\ nextFileId = 1
  /\ upserts = {}
  /\ upload = [k \in Keys |-> [isSubscribed |-> FALSE, pages |-> PagesPerPdf("Free")]]
  /\ acct \in [session : Sessions, dbUser : DbUsers, getUser : GetUserResults]
  /\ pdfPages \in PageCounts
  /\ meta = NoMeta
  /\ rejected = "none"
  /\ hook = NoHook
  /\ authcb = "none"

PlanNext ==
  \/ MiddlewareGetUser
  \/ MiddlewareFindUser
  \/ MiddlewareRetrieve
  \/ CheckPageLimit
  \/ WebhookReceive
  \/ WebhookReadChunk
  \/ WebhookConstructEvent
  \/ WebhookRetrieve
  \/ WebhookUpdate
  \/ AuthGetUser
  \/ AuthFindUser
  \/ AuthCreateUser

PlanSpec == PlanInit /\ [][PlanNext]_vars

\* ------------------------------------------------------------------------
\* Properties of the plan applied to an upload
\* ------------------------------------------------------------------------
\* the caller had, when the middleware read the User row, a subscription to a
\* plan of PLANS whose period has not ended (the day the code allows after the
\* period end counted in)
ActiveKnownPlan ==
  /\ acct.session \in Users
  /\ \E u \in meta.row :
       /\ u.stripePriceId # ""
       /\ \E i \in 1..Len(PLANS) : PLANS[i].priceId = u.stripePriceId
       /\ \E t \in u.stripeCurrentPeriodEnd : t + DayMs > Now

\* C19: the page limit applied to an upload is the Pro limit (25) only when
\* the caller has an active subscription to a known plan; in every other plan
\* state (no database user, no price id, expired period, a price id matching
\* no plan) the Free limit (5) is applied.
C19_LimitFallsBackToFree ==
  rejected # "none" =>
    LET limit == IF ActiveKnownPlan THEN 25 ELSE 5
    IN  (rejected = "yes") <=> (pdfPages > limit)

\* ------------------------------------------------------------------------
\* The private tRPC procedures and the upload middleware, called by any
\* session for any document, next to one POST /api/message
\* ------------------------------------------------------------------------
\* the document ids and storage keys a call may name: the stored ones and one
\* that no document has
ApiIds == { "f1", "f2", "f9" }

ApiKeys == { "k1", "k2", "k9" }

\* isAuth: if (!user || !user.id) throw new TRPCError({ code: "UNAUTHORIZED" })
IsAuth(session) == session \in Users

\* the owner of the document of an id, None without such a document
OwnerOfId(id) ==
  IF RowExists(id) THEN FileRow(id).userId ELSE None

\* the owner of the document of a storage key, None without such a document
OwnerOfKey(key) ==
  IF \E f \in files : f.key = key
    THEN (CHOOSE f \in files : f.key = key).userId
    ELSE None

\* what a call rejected by isAuth leaves: the procedure body has not run
Rejected(op, session, target) ==
  [op |-> op, session |-> session, target |-> target, cursor |-> Undefined,
   owner |-> None,
   res |-> [code |-> "UNAUTHORIZED"], miss |-> [code |-> "UNAUTHORIZED"],
   db |-> FALSE, changed |-> FALSE]

\* getFile answering for a key whoever owns it
GetFile_AnyOwner(userId, key) ==
  LET found == { f \in files : f.key = key }
  IN  IF found = {} THEN [code |-> "NOT_FOUND", file |-> {}]
      ELSE [code |-> "OK", file |-> found]

\* const file = await db.file.findFirst({ where: { key, userId } });
\* if (!file) throw NOT_FOUND; return file
GetFile(userId, key) ==
  LET found == { f \in files : f.key = key /\ f.userId = userId }
  IN  IF found = {} THEN [code |-> "NOT_FOUND", file |-> {}]
      ELSE [code |-> "OK", file |-> found]

\* const file = await db.file.findFirst({ where: { id, userId } });
\* if (!file) return { status: "PENDING" }; return { status: file.uploadStatus }
GetFileUploadStatus(userId, id) ==
  IF OwnedFile(id, userId)
    THEN [code |-> "OK", status |-> FileRow(id).uploadStatus]
    ELSE [code |-> "OK", status |-> "PENDING"]

\* the answer of deleteFile: NOT_FOUND unless the file is the caller's, else the file
DeleteFileAnswer(userId, id) ==
  IF OwnedFile(id, userId)
    THEN [code |-> "OK", file |-> { FileRow(id) }]
    ELSE [code |-> "NOT_FOUND", file |-> {}]

\* a procedure is called: the request reaches the server, where isAuth (or
\* the upload middleware) starts with await getUser(); the answer of the
\* call before it has been taken
CallProcedure(c, op, session, target, limit, cursor) ==
  /\ pend[c].op = "none"
  /\ pend' = [pend EXCEPT ![c] =
       [op |-> op, stage |-> "getUser", session |-> session, target |-> target,
        limit |-> limit, cursor |-> cursor, file |-> {}]]
  /\ api' = NoCall
  /\ UNCHANGED << ingestVars, chatVars, pageVars, planVars, uiVars >>

\* isAuth once getUser() has answered:
\* if (!user || !user.id) throw new TRPCError({ code: "UNAUTHORIZED" });
\* return opts.next({ ctx: { userId: user.id, user } }), and the resolver
\* runs up to its await db.file.findFirst
IsAuthReturns(c) ==
  /\ pend[c].stage = "getUser"
  /\ pend[c].op # "upload"
  /\ IF IsAuth(pend[c].session)
       THEN /\ pend' = [pend EXCEPT ![c].stage = "findFirst"]
            /\ UNCHANGED api
       ELSE /\ api' = Rejected(pend[c].op, pend[c].session, pend[c].target)
            /\ pend' = [pend EXCEPT ![c] = NoPend]
  /\ UNCHANGED << ingestVars, chatVars, pageVars, planVars, uiVars >>

CallGetFile(c, session, key) ==
  CallProcedure(c, "getFile", session, key, Undefined, Undefined)

\* getFile once its findFirst has answered
AnswerGetFile(c) ==
  /\ pend[c].op = "getFile"
  /\ pend[c].stage = "findFirst"
  /\ api' = [op |-> "getFile", session |-> pend[c].session,
             target |-> pend[c].target, cursor |-> Undefined,
             owner |-> OwnerOfKey(pend[c].target),
             res |-> GetFile(pend[c].session, pend[c].target),
             miss |-> GetFile(pend[c].session, "k9"),
             db |-> TRUE, changed |-> FALSE]
  /\ pend' = [pend EXCEPT ![c] = NoPend]
  /\ UNCHANGED << ingestVars, chatVars, pageVars, planVars, uiVars >>

CallGetFileMessages(c, session, id, limit, cursor) ==
  CallProcedure(c, "getFileMessages", session, id, limit, cursor)

\* getFileMessages once its findFirst has answered:
\* const file = await db.file.findFirst({ where: { id: fileId, userId } });
\* if (!file) throw NOT_FOUND; the call of an owner waits for the findMany
FindFileForMessages(c) ==
  /\ pend[c].op = "getFileMessages"
  /\ pend[c].stage = "findFirst"
  /\ IF OwnedFile(pend[c].target, pend[c].session)
       THEN /\ pend' = [pend EXCEPT ![c].stage = "findMany"]
            /\ UNCHANGED api
       ELSE /\ api' = [op |-> "getFileMessages", session |-> pend[c].session,
                       target |-> pend[c].target, cursor |-> pend[c].cursor,
                       owner |-> OwnerOfId(pend[c].target),
                       res |-> GetFileMessages(pend[c].session, pend[c].target,
                                               pend[c].limit, pend[c].cursor),
                       miss |-> GetFileMessages(pend[c].session, "f9",
                                                pend[c].limit, pend[c].cursor),
                       db |-> TRUE, changed |-> FALSE]
            /\ pend' = [pend EXCEPT ![c] = NoPend]
  /\ UNCHANGED << ingestVars, chatVars, pageVars, planVars, uiVars >>

\* getFileMessages after the file was found: the findMany is answered with
\* the rows stored by then, whether or not the file still exists
AnswerGetFileMessages(c) ==
  /\ pend[c].op = "getFileMessages"
  /\ pend[c].stage = "findMany"
  /\ api' = [op |-> "getFileMessages", session |-> pend[c].session,
             target |-> pend[c].target, cursor |-> pend[c].cursor,
             owner |-> pend[c].session,
             res |-> ReadMessages(pend[c].target, pend[c].limit, pend[c].cursor),
             miss |-> GetFileMessages(pend[c].session, "f9", pend[c].limit,
                                      pend[c].cursor),
             db |-> TRUE, changed |-> FALSE]
  /\ pend' = [pend EXCEPT ![c] = NoPend]
  /\ UNCHANGED << ingestVars, chatVars, pageVars, planVars, uiVars >>

CallGetFileUploadStatus(c, session, id) ==
  CallProcedure(c, "getFileUploadStatus", session, id, Undefined, Undefined)

\* getFileUploadStatus once its findFirst has answered
AnswerGetFileUploadStatus(c) ==
  /\ pend[c].op = "getFileUploadStatus"
  /\ pend[c].stage = "findFirst"
  /\ api' = [op |-> "getFileUploadStatus", session |-> pend[c].session,
             target |-> pend[c].target, cursor |-> Undefined,
             owner |-> OwnerOfId(pend[c].target),
             res |-> GetFileUploadStatus(pend[c].session, pend[c].target),
             miss |-> GetFileUploadStatus(pend[c].session, "f9"),
             db |-> TRUE, changed |-> FALSE]
  /\ pend' = [pend EXCEPT ![c] = NoPend]
  /\ UNCHANGED << ingestVars, chatVars, pageVars, planVars, uiVars >>

CallDeleteFile(c, session, id) ==
  CallProcedure(c, "deleteFile", session, id, Undefined, Undefined)

\* deleteFile once its findFirst has answered:
\* const file = await db.file.findFirst({ where: { id, userId } });
\* if (!file) throw NOT_FOUND; the call of an owner waits for the delete
FindFileToDelete(c) ==
  /\ pend[c].op = "deleteFile"
  /\ pend[c].stage = "findFirst"
  /\ IF OwnedFile(pend[c].target, pend[c].session)
       THEN /\ pend' = [pend EXCEPT ![c].stage = "delete",
                                    ![c].file = { FileRow(pend[c].target) }]
            /\ UNCHANGED api
       ELSE /\ api' = [op |-> "deleteFile", session |-> pend[c].session,
                       target |-> pend[c].target, cursor |-> Undefined,
                       owner |-> OwnerOfId(pend[c].target),
                       res |-> DeleteFileAnswer(pend[c].session, pend[c].target),
                       miss |-> DeleteFileAnswer(pend[c].session, "f9"),
                       db |-> TRUE, changed |-> FALSE]
            /\ pend' = [pend EXCEPT ![c] = NoPend]
  /\ UNCHANGED << ingestVars, chatVars, pageVars, planVars, uiVars >>

\* deleteFile after the file was found:
\* await db.file.delete({ where: { id } }); return file
\* the delete of a row that another call has deleted rejects with Prisma's
\* P2025 and the call fails with that error, not with NOT_FOUND
AnswerDeleteFile(c) ==
  /\ pend[c].op = "deleteFile"
  /\ pend[c].stage = "delete"
  /\ files' = { f \in files : f.id # pend[c].target }
  /\ api' = [op |-> "deleteFile", session |-> pend[c].session,
             target |-> pend[c].target, cursor |-> Undefined,
             owner |-> pend[c].session,
             res |-> IF RowExists(pend[c].target)
                       THEN [code |-> "OK", file |-> pend[c].file]
                       ELSE [code |-> "P2025", file |-> {}],
             miss |-> DeleteFileAnswer(pend[c].session, "f9"),
             db |-> TRUE, changed |-> (files' # files)]
  /\ pend' = [pend EXCEPT ![c] = NoPend]
  /\ UNCHANGED << nextFileId, upserts, upload, local >>
  /\ UNCHANGED << chatVars, pageVars, planVars, uiVars >>

\* what the upload middleware leaves for a session (no User row stored)
MiddlewareOutcome(session, getUser) ==
  LET m == UploadMiddleware(session, {}, TRUE, getUser)
  IN  [op |-> "upload", session |-> session, target |-> None,
       cursor |-> Undefined, owner |-> None,
       res |-> [code |-> IF m.state = "thrown" THEN "Unauthorized" ELSE "OK"],
       miss |-> [code |-> "none"],
       db |-> m.dbRead, changed |-> FALSE]

\* the upload route runs its middleware for a session, which starts with
\* const user = await getUser()
CallUploadMiddleware(c, session) ==
  CallProcedure(c, "upload", session, None, Undefined, Undefined)

\* the middleware once getUser() has answered:
\* if (!user || !user.id) throw new Error("Unauthorized");
\* const subscriptionPlan = await getUserSubscriptionPlan(), which returns
\* the Free plan at once when its own getUser() gave a promise and waits for
\* db.user.findFirst otherwise
UploadGetUser(c) ==
  /\ pend[c].op = "upload"
  /\ pend[c].stage = "getUser"
  /\ \/ /\ pend[c].session \notin Users
        /\ api' = MiddlewareOutcome(pend[c].session, "user")
        /\ pend' = [pend EXCEPT ![c] = NoPend]
     \/ /\ pend[c].session \in Users
        /\ api' = MiddlewareOutcome(pend[c].session, "promise")
        /\ pend' = [pend EXCEPT ![c] = NoPend]
     \/ /\ pend[c].session \in Users
        /\ pend' = [pend EXCEPT ![c].stage = "findFirst"]
        /\ UNCHANGED api
  /\ UNCHANGED << ingestVars, chatVars, pageVars, planVars, uiVars >>

\* the middleware once db.user.findFirst has answered: the metadata is
\* returned
AnswerUploadMiddleware(c) ==
  /\ pend[c].op = "upload"
  /\ pend[c].stage = "findFirst"
  /\ api' = MiddlewareOutcome(pend[c].session, "user")
  /\ pend' = [pend EXCEPT ![c] = NoPend]
  /\ UNCHANGED << ingestVars, chatVars, pageVars, planVars, uiVars >>

\* the request of the POST made next to the procedure calls, the question it
\* asks and the token its completion is made of
ApiReq == "r1"

ApiQuestion == << "q", "1" >>

ApiToken == << "a" >>

\* the getFileMessages or middleware call followed next to the deleteFile calls
ListCall == "c1"

\* the call of an owner's deleteFile that overlaps the other calls
OtherCall == "c2"

\* the messages stored at the start: two of document f1, one of document f2
ApiMessages == MessageTable(2, [i \in 1..2 |-> i], TRUE)

ApiInit ==
  /\ IngestIdle
  /\ StoredFiles
  /\ PageIdle
  /\ PlanIdle
  /\ ApiIdle
  /\ UiIdle
  /\ ChatLocalIdle
  /\ messages = ApiMessages
  /\ nextMsgId = Cardinality(ApiMessages) + 1
  /\ clock = Cardinality(ApiMessages) + 1

\* the owner a document id had at the start, None for an id of no document
StoredOwner(id) ==
  IF \E f \in StoredRows : f.id = id
    THEN (CHOOSE f \in StoredRows : f.id = id).userId
    ELSE None

\* the callers and targets tried: every user with every target, a session
\* without user id with one target
ApiTries(targets) ==
  { st \in Sessions \X targets : st[1] \in Users \/ st[2] = CHOOSE t \in targets : TRUE }

ApiNext ==
  \/ \E st \in ApiTries(ApiKeys) : CallGetFile(ListCall, st[1], st[2])
  \/ \E st \in ApiTries(ApiIds), limit \in {1, Undefined} :
       /\ limit = Undefined \/ st[1] = StoredOwner("f1")
       /\ CallGetFileMessages(ListCall, st[1], st[2], limit, Undefined)
  \/ \E st \in ApiTries(ApiIds) : CallGetFileUploadStatus(ListCall, st[1], st[2])
  \/ \E st \in ApiTries(ApiIds) : CallDeleteFile(DelCall, st[1], st[2])
  \/ \E f \in files : CallDeleteFile(OtherCall, f.userId, f.id)
  \/ \E s \in Sessions : CallUploadMiddleware(ListCall, s)
  \/ \E c \in ApiCalls : IsAuthReturns(c)
  \/ AnswerGetFile(ListCall)
  \/ FindFileForMessages(ListCall)
  \/ AnswerGetFileMessages(ListCall)
  \/ AnswerGetFileUploadStatus(ListCall)
  \/ \E c \in ApiCalls : FindFileToDelete(c)
  \/ \E c \in ApiCalls : AnswerDeleteFile(c)
  \/ UploadGetUser(ListCall)
  \/ AnswerUploadMiddleware(ListCall)
  \/ PostStart(ApiReq) /\ rtext'[ApiReq] = ApiQuestion
  \/ PostAuth(ApiReq)
  \/ PostFindFile(ApiReq)
  \/ PostCreateUserMessage(ApiReq)
  \/ PostFromExistingIndex(ApiReq)
  \/ PostSimilaritySearch(ApiReq)
  \/ PostPrevMessages(ApiReq)
  \/ PostCompletionCreate(ApiReq)
  \/ StreamToken(ApiReq) /\ sent'[ApiReq][Len(sent'[ApiReq])] = ApiToken
  \/ StreamEnd(ApiReq)
  \/ StreamError(ApiReq)

ApiSpec == ApiInit /\ [][ApiNext]_vars

\* ------------------------------------------------------------------------
\* The infinite query of the message list over getFileMessages
\* ------------------------------------------------------------------------
\* no fetch of the query is on its way
PageQueryIdle == pend[ListCall].op = "none" /\ api = NoCall

\* useInfiniteQuery({ fileId, limit }): the first page is asked for with no
\* cursor
FetchFirstPage ==
  /\ ~pgLoaded
  /\ PageQueryIdle
  /\ CallGetFileMessages(ListCall, "u1", "f1", pgLimit, Undefined)

\* fetchNextPage asking without the cursor of the last page
FetchNextPage_Restart ==
  /\ pgLoaded
  /\ pgNext # Undefined
  /\ PageQueryIdle
  /\ CallGetFileMessages(ListCall, "u1", "f1", pgLimit, Undefined)

\* fetchNextPage(): getNextPageParam: (lastPage) => lastPage?.nextCursor;
\* with no next page parameter nothing is fetched
FetchNextPage ==
  /\ pgLoaded
  /\ pgNext # Undefined
  /\ PageQueryIdle
  /\ CallGetFileMessages(ListCall, "u1", "f1", pgLimit, pgNext)

\* the answer of the call reaches the query: the page is appended to
\* data.pages and its nextCursor is the next page parameter
PageFetched ==
  /\ api.op = "getFileMessages"
  /\ api.res.code = "OK"
  /\ pgPages' = Append(pgPages, Ids(api.res.messages))
  /\ pgNext' = api.res.nextCursor
  /\ pgCursor' = api.cursor
  /\ pgLoaded' = TRUE
  /\ api' = NoCall
  /\ UNCHANGED << pgLimit, pend >>
  /\ UNCHANGED << ingestVars, chatVars, planVars, uiVars >>

PageInit ==
  /\ IngestIdle
  /\ OthersIdle
  /\ StoredFiles
  /\ \E n \in 0..LongThread : \E at \in TimeOrders(n) : \E other \in BOOLEAN :
       /\ messages = MessageTable(n, at, other)
       /\ nextMsgId = n + 2
       /\ clock = n + 2
  /\ ChatLocalIdle
  /\ pgLimit \in (1..MaxLimit) \cup {Undefined}
  /\ pgLoaded = FALSE
  /\ pgPages = << >>
  /\ pgNext = Undefined
  /\ pgCursor = Undefined

PageNext ==
  \/ FetchFirstPage
  \/ FetchNextPage
  \/ IsAuthReturns(ListCall)
  \/ FindFileForMessages(ListCall)
  \/ AnswerGetFileMessages(ListCall)
  \/ PageFetched

PageSpec == PageInit /\ [][PageNext]_vars

\* ------------------------------------------------------------------------
\* Properties of ownership and authentication
\* ------------------------------------------------------------------------
\* the last procedure call named a document of another owner
ForeignCall == api.session \in Users /\ api.owner \in Users /\ api.owner # api.session

\* the last procedure call named a document that does not exist
MissingCall == api.session \in Users /\ api.op # "upload" /\ api.owner = None

\* the POST has looked up its document
PostLookedUp(r) == ruser[r] \in Users /\ rpc[r] \notin {"idle", "auth", "findFile"}

\* what the POST of r has answered and left behind
PostOutcome(r) ==
  [state |-> rpc[r], resp |-> resp[r],
   stored |-> Cardinality({ m \in messages : m.by = r }),
   searched |-> nresults[r], history |-> prev[r], streamed |-> sent[r]]

\* the outcome of a POST for a document that does not exist
PostMissOutcome ==
  [state |-> "done", resp |-> "404", stored |-> 0, searched |-> 0,
   history |-> << >>, streamed |-> << >>]

\* C13: for getFile, getFileMessages, getFileUploadStatus, deleteFile and the
\* POST, a call naming another owner's document gets the response a call
\* naming a nonexistent document gets, and like it changes no stored state; the
\* other owner's document is never returned, listed, chatted with or deleted.
C13_OwnershipNonInterference ==
  /\ ForeignCall =>
        /\ api.res = api.miss
        /\ ~api.changed
        /\ api.op = "deleteFile" => api.res.file = {}
        /\ api.op = "getFile" => api.res.file = {}
        /\ api.op = "getFileMessages" => api.res.messages = << >>
  /\ MissingCall => ~api.changed
  /\ (PostLookedUp(ApiReq) /\ StoredOwner(rfile[ApiReq]) # ruser[ApiReq]) =>
        PostOutcome(ApiReq) = PostMissOutcome

\* a deleteFile naming another owner's document and a POST naming another
\* owner's document have both been answered
C13_Witness ==
  /\ ForeignCall
  /\ api.op = "deleteFile"
  /\ PostLookedUp(ApiReq)
  /\ StoredOwner(rfile[ApiReq]) \in Users \ { ruser[ApiReq] }

\* C14: when the POST, getFileMessages, getFile or deleteFile names a document
\* that does not exist or is not the caller's, the call reports not-found and
\* changes nothing: no Message row is created, no File row is created, changed
\* or deleted, and no similarity query or completion request is issued.
C14_NotFoundChangesNothing ==
  /\ ((ForeignCall \/ MissingCall)
        /\ api.op \in {"getFile", "getFileMessages", "deleteFile"}) =>
        /\ api.res.code = "NOT_FOUND"
        /\ ~api.changed
  /\ (PostLookedUp(ApiReq) /\ StoredOwner(rfile[ApiReq]) # ruser[ApiReq]) =>
        /\ rpc[ApiReq] = "done"
        /\ resp[ApiReq] = "404"
        /\ { m \in messages : m.by = ApiReq } = {}
        /\ nresults[ApiReq] = 0
        /\ ~CompletionRequested(ApiReq)
  /\ \A f \in files : f \in StoredRows

\* a getFile naming a key of no document and a POST naming an id of no
\* document have both been answered
C14_Witness ==
  /\ MissingCall
  /\ api.op = "getFile"
  /\ PostLookedUp(ApiReq)
  /\ StoredOwner(rfile[ApiReq]) = None

\* C15: when the caller cannot be identified (no user, or a user without
\* id), the POST answers Unauthorized (401), every private procedure throws
\* UNAUTHORIZED and the upload middleware throws, each before any database
\* read or write, vector query or completion request.
C15_UnidentifiedRejectedFirst ==
  /\ (api.op # "none" /\ api.session \notin Users) =>
        /\ api.res.code \in {"UNAUTHORIZED", "Unauthorized"}
        /\ ~api.db
        /\ ~api.changed
  /\ (rpc[ApiReq] \notin {"idle", "auth"} /\ ruser[ApiReq] \notin Users) =>
        /\ rpc[ApiReq] = "done"
        /\ resp[ApiReq] = "401"
        /\ { m \in messages : m.by = ApiReq } = {}
        /\ nresults[ApiReq] = 0
        /\ ~CompletionRequested(ApiReq)

\* ------------------------------------------------------------------------
\* Properties of the prompt
\* ------------------------------------------------------------------------
\* the POST of r has read the conversation history
HistoryRead(r) == rpc[r] \in {"complete", "streaming", "closed", "errored", "failed"}

\* C16: whatever the numbers of stored chunks and messages of the document,
\* the prompt of a question holds at most 4 retrieved chunks and at most 6
\* history messages.
C16_PromptBounded ==
  \A r \in Reqs : nresults[r] <= 4 /\ Len(prev[r]) <= 6

\* a prompt was built for a document with more than 4 chunks and more than 6
\* messages
C16_Witness ==
  \E r \in Reqs :
    /\ HistoryRead(r)
    /\ ChunkCount(rfile[r]) > 4
    /\ Cardinality({ m \in messages : m.fileId = rfile[r] }) > 6
    /\ nresults[r] = 4
    /\ Len(prev[r]) = 6

\* messages: [{ role: "system", ... }, { role: "user", content: PREVIOUS
\* CONVERSATION + CONTEXT + USER INPUT }]: the turns of the completion request,
\* with the number of context chunks, the history and the question they carry
Prompt(r) ==
  << [role |-> "system", context |-> 0, history |-> << >>, input |-> << >>],
     [role |-> "user", context |-> nresults[r], history |-> prev[r],
      input |-> rtext[r]] >>

\* the POST of r is for a document whose namespace holds no chunk and has got
\* past the similarity search
AskedEmpty(r) ==
  /\ UserMessagesOf(r) # {}
  /\ ChunkCount(rfile[r]) = 0
  /\ rpc[r] \notin {"openIndex", "search"}

\* C25: a question against an owned document whose namespace holds no chunk
\* does not fail: the similarity query yields nothing, the user message is
\* stored as usual, and the prompt sent still has a system turn and a user
\* turn with the question and no context.
C25_EmptyNamespaceStillAnswers ==
  \A r \in Reqs : AskedEmpty(r) =>
    /\ rpc[r] \in {"prev", "complete", "streaming", "closed", "errored", "failed"}
    /\ nresults[r] = 0
    /\ \A m \in UserMessagesOf(r) : m.text = rtext[r] /\ m.fileId = rfile[r]
    /\ Cardinality(UserMessagesOf(r)) = 1
    /\ CompletionRequested(r) =>
          /\ Len(Prompt(r)) = 2
          /\ Prompt(r)[1].role = "system"
          /\ Prompt(r)[2].role = "user"
          /\ Prompt(r)[2].input = rtext[r]
          /\ Prompt(r)[2].context = 0

\* an answer is being streamed for a document without chunks
C25_Witness ==
  \E r \in Reqs :
    /\ AskedEmpty(r)
    /\ rpc[r] = "streaming"
    /\ sent[r] # << >>

\* createdAt of the message of an id
CreatedAt(id) == (CHOOSE m \in messages : m.id = id).createdAt

\* C17: the history placed in the prompt is the most recent 6 messages of the
\* document, oldest first: it holds the question just persisted, it is in
\* creation order, and no message of the document as old as the question is
\* left out while an older one is in.
C17_HistoryIsNewestSix ==
  \A r \in Reqs : HistoryRead(r) =>
    /\ \A q \in UserMessagesOf(r) :
          /\ \E i \in 1..Len(prev[r]) : prev[r][i] = q.id
          /\ \A m \in messages :
                (/\ m.fileId = rfile[r]
                 /\ m.createdAt <= q.createdAt
                 /\ \A i \in 1..Len(prev[r]) : prev[r][i] # m.id)
                  => \A i \in 1..Len(prev[r]) : CreatedAt(prev[r][i]) > m.createdAt
    /\ \A i, j \in 1..Len(prev[r]) :
          i < j => CreatedAt(prev[r][i]) < CreatedAt(prev[r][j])

\* ------------------------------------------------------------------------
\* Properties of deletion and of a failed fetch
\* ------------------------------------------------------------------------
\* C18: once deleteFile has returned for a document no chunk exists under the
\* namespace of its id and none is written there later, also when the
\* document is deleted while its ingestion runs: every namespace holding
\* chunks is the id of a stored document.
C18_DeleteRemovesNamespace ==
  \A u \in upserts : RowExists(u.ns)

\* C20: a failed fetch of the source file (network error or non-2xx
\* response) ends the attempt: neither parsing, the policy check nor the
\* index write is performed afterwards, and the attempt, when it has run to
\* its end, leaves the document FAILED.
C20_FailedFetchIsTerminal ==
  \A p \in Slots : "fetchFailed" \in did[p] =>
    /\ did[p] \cap {"parse", "policy", "index"} = {}
    /\ (pc[p] = "done" /\ RowExists(created[p])) =>
          FileRow(created[p]).uploadStatus = "FAILED"

\* ------------------------------------------------------------------------
\* One upload-completion invocation followed to its end, with the status
\* query of ChatWrapper polling the document it creates
\* ------------------------------------------------------------------------
\* the id of the document the page is opened for: the first row created
PolledId == FileIds[1]

\* refetchInterval: (data) => data?.status === "SUCCESS" || data?.status === "FAILED"
\*                              ? false : 500
RefetchInterval(status) == IF status \in {"SUCCESS", "FAILED"} THEN 0 ELSE 500

\* trpc.getFileUploadStatus.useQuery({ fileId }, { refetchInterval }): the
\* query runs on mount and again after every interval that is not false
PollStatus ==
  /\ RefetchInterval(poll.status) # 0
  /\ api = NoCall
  /\ CallGetFileUploadStatus(OtherCall, poll.user, PolledId)

\* the answer of the call reaches the query: data is the status it carries
PollAnswered ==
  /\ api.op = "getFileUploadStatus"
  /\ poll' = [poll EXCEPT !.status = api.res.status]
  /\ api' = NoCall
  /\ UNCHANGED pend
  /\ UNCHANGED << ingestVars, chatVars, pageVars, planVars, clientVars, toastVars >>

SoloInit ==
  /\ ChatIdle
  /\ PageIdle
  /\ PlanIdle
  /\ ApiIdle
  /\ IngestIdle
  /\ files = {}
  /\ nextFileId = 1
  /\ upserts = {}
  /\ upload \in [Keys -> PlanCases]
  /\ poll \in [user : Users, status : {"none"}]
  /\ ClientIdle
  /\ ToastIdle

SoloNext ==
  \/ HandlerStep(Solo)
  \/ \E s \in Sessions, f \in files : DeleteCall(DelCall, s, f.id)
  \/ DeleteAuth(DelCall)
  \/ DeleteFind(DelCall)
  \/ DeleteRow(DelCall)
  \/ PollStatus
  \/ IsAuthReturns(OtherCall)
  \/ AnswerGetFileUploadStatus(OtherCall)
  \/ PollAnswered

\* one poll of the status query, from the request to the answer
PollStep ==
  \/ PollStatus
  \/ IsAuthReturns(OtherCall)
  \/ AnswerGetFileUploadStatus(OtherCall)
  \/ PollAnswered

\* the handler keeps running while it has a step to take, and the interval
\* timer of the query keeps firing while it is set
SoloSpec ==
  SoloInit /\ [][SoloNext]_vars /\ WF_vars(HandlerStep(Solo)) /\ WF_vars(PollStep)

\* C21: when the fetch of the uploaded file never responds, the document is
\* still eventually marked FAILED (or is gone), it does not stay PROCESSING.
C21_HungFetchEventuallyFailed ==
  (pc[Solo] = "hung") ~>
    (RowExists(created[Solo]) => FileRow(created[Solo]).uploadStatus = "FAILED")

\* C22: no ingestion failure leaves the upload-completion handler as an
\* exception: whatever fails, the handler returns normally.
C22_NoExceptionEscapes ==
  \A p \in Slots : pc[p] # "thrown"

\* the index writes of an invocation
UpsertsBy(p) == { u \in upserts : u.by = p }

\* the invocation wrote the status st
Wrote(p, st) == \E i \in 1..Len(wrote[p]) : wrote[p][i] = st

\* fetch, parse and indexing succeeded, the page count is within the limit
\* of the plan and the handler has returned after an accepted SUCCESS write
SuccessPath(p) ==
  /\ pc[p] = "done"
  /\ "fetchFailed" \notin did[p]
  /\ UpsertsBy(p) # {}
  /\ pagesAmt[p] <= PlanLimit(ikey[p])
  /\ wrote[p][Len(wrote[p])] = "SUCCESS"

\* C23: on the success path (fetch, parse and indexing succeed, page count
\* within the plan limit, status writes accepted) the statuses written are
\* PROCESSING then SUCCESS and nothing else; the pages parsed are written in
\* one index write under the namespace of the document's id and under no
\* other; SUCCESS is written only after the index write.
C23_SuccessPath ==
  \A p \in Slots :
    /\ Wrote(p, "SUCCESS") => UpsertsBy(p) # {}
    /\ \A u \in UpsertsBy(p) :
          /\ u.ns = created[p]
          /\ u.pages = pagesAmt[p]
          /\ u.pages = upload[ikey[p]].pages
    /\ SuccessPath(p) =>
          /\ wrote[p] = << "PROCESSING", "SUCCESS" >>
          /\ Cardinality(UpsertsBy(p)) = 1

\* an upload within its limit has been ingested to SUCCESS
C23_Witness ==
  \E p \in Slots :
    /\ SuccessPath(p)
    /\ RowExists(created[p])
    /\ FileRow(created[p]).uploadStatus = "SUCCESS"

\* C24: under any interleaving of invocations, for the same or for different
\* storage keys, no two invocations write chunks into the same namespace and
\* none writes into the namespace of a document another invocation created.
C24_SingleWriterPerNamespace ==
  /\ \A u, v \in upserts : u.ns = v.ns => u.by = v.by
  /\ \A u \in upserts : \A q \in Slots \ { u.by } : created[q] # u.ns

\* two invocations have both written their chunks
C24_Witness ==
  \E u, v \in upserts : u.by # v.by /\ u.ns # v.ns

\* the interval polling has stopped
PollStopped == RefetchInterval(poll.status) = 0

\* C26: polling goes on while PENDING or PROCESSING is observed and stops at
\* the first SUCCESS or FAILED; the status at which it stopped is the stored
\* status of the document at every later time (as long as the document is
\* stored).
C26_StoppedStatusIsFinal ==
  /\ PollStopped <=> poll.status \in {"SUCCESS", "FAILED"}
  /\ (PollStopped /\ RowExists(PolledId)) =>
        FileRow(PolledId).uploadStatus = poll.status

\* ------------------------------------------------------------------------
\* use-toast: reducer, dispatch, toast() and the removal timers
\* ------------------------------------------------------------------------
TOAST_LIMIT == 1

\* the titles a toast is made or updated with
Titles == {"t1", "t2"}

\* the reducer placing a new toast behind the held ones
Reducer_AddLast(ts, a) ==
  CASE a.type = "ADD_TOAST" ->
         SubSeq(ts \o << [id |-> a.toastId, title |-> a.title, open |-> TRUE] >>,
                1, Min(Len(ts) + 1, TOAST_LIMIT))
    [] a.type = "UPDATE_TOAST" ->
         [i \in 1..Len(ts) |->
            IF ts[i].id = a.toastId THEN [ts[i] EXCEPT !.title = a.title] ELSE ts[i]]
    [] a.type = "DISMISS_TOAST" ->
         [i \in 1..Len(ts) |->
            IF ts[i].id = a.toastId \/ a.toastId = Undefined
              THEN [ts[i] EXCEPT !.open = FALSE] ELSE ts[i]]
    [] a.type = "REMOVE_TOAST" ->
         IF a.toastId = Undefined THEN << >>
         ELSE SelectSeq(ts, LAMBDA t : t.id # a.toastId)

\* reducer(state, action).toasts
\* ADD_TOAST: [action.toast, ...state.toasts].slice(0, TOAST_LIMIT)
\* UPDATE_TOAST: the toast of the id merged with action.toast
\* DISMISS_TOAST: open: false for the toast of the id, or for all without id
\* REMOVE_TOAST: [] without id, else the toasts of the other ids
Reducer(ts, a) ==
  CASE a.type = "ADD_TOAST" ->
         SubSeq(<< [id |-> a.toastId, title |-> a.title, open |-> TRUE] >> \o ts,
                1, Min(Len(ts) + 1, TOAST_LIMIT))
    [] a.type = "UPDATE_TOAST" ->
         [i \in 1..Len(ts) |->
            IF ts[i].id = a.toastId THEN [ts[i] EXCEPT !.title = a.title] ELSE ts[i]]
    [] a.type = "DISMISS_TOAST" ->
         [i \in 1..Len(ts) |->
            IF ts[i].id = a.toastId \/ a.toastId = Undefined
              THEN [ts[i] EXCEPT !.open = FALSE] ELSE ts[i]]
    [] a.type = "REMOVE_TOAST" ->
         IF a.toastId = Undefined THEN << >>
         ELSE SelectSeq(ts, LAMBDA t : t.id # a.toastId)

\* the ids DISMISS_TOAST hands to addToRemoveQueue: if (toastId) the id, else
\* the id of every held toast
Queued(ts, toastId) ==
  IF toastId # Undefined THEN {toastId} ELSE { ts[i].id : i \in 1..Len(ts) }

\* addToRemoveQueue setting a timeout whether or not one is pending
AddToRemoveQueue_NoCheck(ids) ==
  [i \in ToastIds |-> IF i \in ids THEN pending[i] + 1 ELSE pending[i]]

\* addToRemoveQueue for each of the ids: if (toastTimeouts.has(id)) return;
\* else setTimeout(...): the timeouts pending afterwards
AddToRemoveQueue(ids) ==
  [i \in ToastIds |->
     IF i \in ids /\ i \notin toastTimeouts THEN pending[i] + 1 ELSE pending[i]]

\* toast(props): id = genId(); dispatch({ type: "ADD_TOAST", toast: { ...props, id, open: true } })
AddToast(title) ==
  /\ count < MaxToasts
  /\ count' = count + 1
  /\ toasts' = Reducer(toasts, [type |-> "ADD_TOAST", toastId |-> count + 1,
                                title |-> title])
  /\ lastAction' = [type |-> "ADD_TOAST", toastId |-> count + 1, before |-> toasts]
  /\ UNCHANGED << toastTimeouts, pending >>

\* a component calls toast(props)
MakeToast ==
  /\ \E title \in Titles : AddToast(title)
  /\ UNCHANGED outsideToast

\* update(props): dispatch({ type: "UPDATE_TOAST", toast: { ...props, id } })
UpdateToast ==
  /\ \E id \in ToastIds, title \in Titles :
       /\ id <= count
       /\ toasts' = Reducer(toasts, [type |-> "UPDATE_TOAST", toastId |-> id,
                                     title |-> title])
       /\ lastAction' = [type |-> "UPDATE_TOAST", toastId |-> id, before |-> toasts]
  /\ UNCHANGED << toastTimeouts, pending, count >>
  /\ UNCHANGED outsideToast

\* dismiss(toastId?): dispatch({ type: "DISMISS_TOAST", toastId })
DismissToast ==
  /\ \E id \in ToastIds \cup {Undefined} :
       /\ id <= count
       /\ pending' = AddToRemoveQueue(Queued(toasts, id))
       /\ toastTimeouts' = toastTimeouts \cup Queued(toasts, id)
       /\ toasts' = Reducer(toasts, [type |-> "DISMISS_TOAST", toastId |-> id])
       /\ lastAction' = [type |-> "DISMISS_TOAST", toastId |-> id, before |-> toasts]
  /\ UNCHANGED count
  /\ UNCHANGED outsideToast

\* reducer(state, { type: "REMOVE_TOAST", toastId? })
RemoveToast ==
  /\ \E id \in ToastIds \cup {Undefined} :
       /\ id <= count
       /\ toasts' = Reducer(toasts, [type |-> "REMOVE_TOAST", toastId |-> id])
       /\ lastAction' = [type |-> "REMOVE_TOAST", toastId |-> id, before |-> toasts]
  /\ UNCHANGED << toastTimeouts, pending, count >>
  /\ UNCHANGED outsideToast

\* a timeout of addToRemoveQueue fires:
\* toastTimeouts.delete(toastId); dispatch({ type: "REMOVE_TOAST", toastId })
TimerFires ==
  /\ \E id \in ToastIds :
       /\ pending[id] > 0
       /\ pending' = [pending EXCEPT ![id] = @ - 1]
       /\ toastTimeouts' = toastTimeouts \ {id}
       /\ toasts' = Reducer(toasts, [type |-> "REMOVE_TOAST", toastId |-> id])
       /\ lastAction' = [type |-> "TIMER", toastId |-> id, before |-> toasts]
  /\ UNCHANGED count
  /\ UNCHANGED outsideToast

ToastInit ==
  /\ ChatIdle
  /\ PageIdle
  /\ PlanIdle
  /\ ApiIdle
  /\ IngestIdle
  /\ PollIdle
  /\ ClientIdle
  /\ ToastIdle
  /\ files = {}
  /\ nextFileId = 1
  /\ upserts = {}
  /\ upload = [k \in Keys |-> [isSubscribed |-> FALSE, pages |-> PagesPerPdf("Free")]]

ToastNext ==
  \/ MakeToast
  \/ UpdateToast
  \/ DismissToast
  \/ RemoveToast
  \/ TimerFires

ToastSpec == ToastInit /\ [][ToastNext]_vars

\* ------------------------------------------------------------------------
\* Properties of the toast state
\* ------------------------------------------------------------------------
\* C29: after any sequence of ADD_TOAST, UPDATE_TOAST, DISMISS_TOAST and
\* REMOVE_TOAST actions the state holds at most one toast, and after an
\* ADD_TOAST the toast held is the one added last.
C29_AtMostOneToast ==
  /\ Len(toasts) <= 1
  /\ lastAction.type = "ADD_TOAST" =>
        /\ Len(toasts) = 1
        /\ toasts[1].id = lastAction.toastId
        /\ toasts[1].id = count
        /\ toasts[1].open

\* a toast was added while another one was held
C29_Witness ==
  /\ lastAction.type = "ADD_TOAST"
  /\ Len(lastAction.before) = 1
  /\ Len(toasts) = 1
  /\ toasts[1].id # lastAction.before[1].id

\* the toasts a DISMISS_TOAST of an id targets: that one, or all without id
Targeted(t, toastId) == toastId = Undefined \/ t.id = toastId

\* C30: DISMISS_TOAST sets open=false on the targeted toast (every toast
\* without id), removes none and leaves a removal timer pending for it; no
\* toast id ever has more than one pending timer, a repeated dismiss adding
\* none; when a timer fires, the toast of its id is gone from the state and
\* the timer entry of the id is cleared.
C30_DismissThenRemove ==
  /\ \A i \in ToastIds :
        /\ pending[i] <= 1
        /\ (pending[i] = 1) <=> (i \in toastTimeouts)
  /\ lastAction.type = "DISMISS_TOAST" =>
        /\ Len(toasts) = Len(lastAction.before)
        /\ \A i \in 1..Len(toasts) :
              /\ toasts[i].id = lastAction.before[i].id
              /\ toasts[i].title = lastAction.before[i].title
              /\ IF Targeted(toasts[i], lastAction.toastId)
                   THEN ~toasts[i].open /\ pending[toasts[i].id] = 1
                   ELSE toasts[i].open = lastAction.before[i].open
  /\ lastAction.type = "TIMER" =>
        /\ \A i \in 1..Len(toasts) : toasts[i].id # lastAction.toastId
        /\ lastAction.toastId \notin toastTimeouts
        /\ pending[lastAction.toastId] = 0
        /\ \A i \in 1..Len(lastAction.before) :
              lastAction.before[i].id # lastAction.toastId =>
                \E j \in 1..Len(toasts) : toasts[j] = lastAction.before[i]

\* the timer of a dismissed toast has fired and removed the toast
C30_Witness ==
  /\ lastAction.type = "TIMER"
  /\ \E i \in 1..Len(lastAction.before) :
       /\ lastAction.before[i].id = lastAction.toastId
       /\ ~lastAction.before[i].open
  /\ toasts = << >>

\* ------------------------------------------------------------------------
\* The chat client (ChatContext.tsx, ChatInput.tsx, Messages.tsx)
\* ------------------------------------------------------------------------

\* the ids the database gives the rows of a document, in creation order
DbIds ==
  << "m01", "m02", "m03", "m04", "m05", "m06", "m07", "m08", "m09", "m10",
     "m11", "m12", "m13", "m14", "m15" >>

\* most chunks a completion stream delivers
MaxChunks == 2

\* the chunks of a completion: the chat never looks into a chunk, so chunks
\* that differ from each other stand for any
Completion == [k \in 1..(MaxChunks + 1) |-> IF k % 2 = 1 THEN << "a" >> ELSE << "b", "c" >>]

\* the id crypto.randomUUID() gives the optimistic message of a send
OptId(s) == IF s = "s1" THEN "uuid-s1" ELSE "uuid-s2"

\* a message as the client caches it
Msg(id, text, isUser) == [id |-> id, text |-> text, isUserMessage |-> isUser]

\* a thread of n stored messages, newest first
Thread(n) ==
  [i \in 1..n |-> Msg(DbIds[n + 1 - i], << "h" >>, (n + 1 - i) % 2 = 1)]

\* the row the server adds on top of the stored ones
Stored(rows, text, isUser) ==
  << Msg(DbIds[Len(rows) + 1], text, isUser) >> \o rows

\* the page getFileMessages returns for the rows from place p on:
\* INFINITE_QUERY_LIMIT rows, and the id of the row after them as nextCursor
PageFrom(rows, p) ==
  [messages |-> SubSeq(rows, p, Min(p + INFINITE_QUERY_LIMIT - 1, Len(rows))),
   nextCursor |-> IF p + INFINITE_QUERY_LIMIT <= Len(rows)
                    THEN rows[p + INFINITE_QUERY_LIMIT].id ELSE None]

\* the pages a (re)fetch of the infinite query returns when n pages were
\* loaded: paging stops where getFileMessages returns no nextCursor
FetchPages(rows, n) ==
  LET want == IF n < 1 THEN 1 ELSE n
      have == IF Len(rows) = 0 THEN 1
              ELSE (Len(rows) + INFINITE_QUERY_LIMIT - 1) \div INFINITE_QUERY_LIMIT
      k    == Min(want, have)
  IN [i \in 1..k |-> PageFrom(rows, (i - 1) * INFINITE_QUERY_LIMIT + 1)]

\* the place of the row of an id
Position(rows, id) == CHOOSE p \in 1..Len(rows) : rows[p].id = id

\* getNextPageParam of the last page of some pages
NextCursor(pages) ==
  IF pages = << >> THEN None ELSE pages[Len(pages)].nextCursor

\* every message of the cached pages, in display order
Cached(c) == Flatten([i \in 1..Len(c.pages) |-> c.pages[i].messages])

\* onMutate's updater of the infinite query: no data gives an empty list of
\* pages; else the question is written on top of the messages of the newest
\* page, the page object itself (latestPage.messages = ...), and the new
\* list of pages holds the same page objects; with an empty list of pages
\* newPages[0] is undefined and the write throws a TypeError
OptimisticUpdate(old, s, message) ==
  IF ~old.defined
  THEN [thrown |-> FALSE, data |-> [defined |-> TRUE, pages |-> << >>]]
  ELSE IF old.pages = << >>
  THEN [thrown |-> TRUE, data |-> old]
  ELSE [thrown |-> FALSE,
        data |-> [defined |-> TRUE,
                  pages |-> [old.pages EXCEPT ![1].messages =
                               << Msg(OptId(s), message, TRUE) >> \o @]]]

\* onSuccess's updater of the infinite query: the newest page gets an
\* "ai-response" message when no page has one, else its "ai-response"
\* message gets the accumulated text; no data gives an empty list of pages
StreamUpdate(old, accResponse) ==
  IF ~old.defined
  THEN [defined |-> TRUE, pages |-> << >>]
  ELSE LET isAiResponseCreated ==
             \E i \in 1..Len(old.pages) :
               \E j \in 1..Len(old.pages[i].messages) :
                 old.pages[i].messages[j].id = "ai-response"
           page == old.pages[1].messages
       IN [defined |-> TRUE,
           pages |-> [i \in 1..Len(old.pages) |->
                        IF i # 1 THEN old.pages[i]
                        ELSE IF ~isAiResponseCreated
                        THEN [old.pages[1] EXCEPT !.messages =
                                << Msg("ai-response", accResponse, FALSE) >>
                                  \o page]
                        ELSE [old.pages[1] EXCEPT !.messages =
                                [j \in 1..Len(page) |->
                                   IF page[j].id = "ai-response"
                                   THEN Msg("ai-response", accResponse,
                                            page[j].isUserMessage)
                                   ELSE page[j]]]]]

\* accResponse of a send: its chunks joined in the order received
AccResponse(chunks) == Flatten(chunks)

\* a fetch of the infinite query as it starts. fetchNextPage keeps the page
\* objects the query holds and asks for the page after them; a fetch anew
\* asks again for as many pages as the query holds, at least one
Asked(kind, c) ==
  [kind |-> kind, stage |-> "getUser",
   want |-> IF kind = "next" THEN Len(c.pages) + 1
            ELSE IF c.pages = << >> THEN 1 ELSE Len(c.pages),
   pages |-> IF kind = "next" THEN c.pages ELSE << >>,
   shared |-> kind = "next"]

\* handleInputChange: the textarea's value becomes the message
HandleInputChange(q) ==
  /\ input # q
  /\ input' = q
  /\ UNCHANGED << cache, plainCache, backup, srv, refetching, cstage, ctext,
                  cacc, ctxPrev, cbefore, sreq, sout, fetched, isLoading >>
  /\ UNCHANGED outsideClient

\* onError, then onSettled: the input gets the backup, the query { fileId }
\* gets the context's messages, isLoading is cleared and getFileMessages is
\* invalidated
OnError(s, previousMessages) ==
  /\ input' = backup
  /\ plainCache' = [defined |-> TRUE, messages |-> previousMessages]
  /\ isLoading' = FALSE
  /\ refetching' = TRUE
  /\ fetched' = Asked("refetch", cache)
  /\ cstage' = [cstage EXCEPT ![s] = "failed"]

\* addMessage, and onMutate up to its await: the message is backed up, the
\* input cleared and the fetches of getFileMessages in flight cancelled. The
\* Enter key calls addMessage whatever isLoading is and however an earlier
\* send stands
OnMutateStart(s) ==
  /\ cstage[s] = "idle"
  /\ backup' = input
  /\ input' = << >>
  /\ refetching' = FALSE
  /\ fetched' = NoFetch
  /\ ctext' = [ctext EXCEPT ![s] = input]
  /\ cbefore' = [cbefore EXCEPT ![s] = cache]
  /\ cstage' = [cstage EXCEPT ![s] = "mutating"]
  /\ UNCHANGED << cache, plainCache, srv, cacc, ctxPrev, sreq, sout, isLoading
                  >>
  /\ UNCHANGED outsideClient

\* onMutate after its await: getInfiniteData() is called with no input, so
\* it finds no query and previousMessages is []; when the updater throws the
\* mutation fails with no context; else the question is in the newest page,
\* also in the one a fetchNextPage in flight holds (the same object),
\* isLoading is set and mutationFn sends the request
OnMutateApply(s) ==
  /\ cstage[s] = "mutating"
  /\ ctxPrev' = [ctxPrev EXCEPT ![s] = << >>]
  /\ LET upd == OptimisticUpdate(cache, s, ctext[s])
     IN  IF upd.thrown
         THEN /\ OnError(s, << >>)
              /\ UNCHANGED << cache, backup, srv, ctext, cacc, cbefore, sreq,
                              sout >>
         ELSE /\ cache' = upd.data
              /\ fetched' = IF fetched.shared
                              THEN [fetched EXCEPT !.pages[1] = upd.data.pages[1]]
                              ELSE fetched
              /\ isLoading' = TRUE
              /\ cstage' = [cstage EXCEPT ![s] = "sent"]
              /\ sreq' = [sreq EXCEPT ![s] = "json"]
              /\ UNCHANGED << plainCache, input, backup, srv, refetching,
                              ctext, cacc, cbefore, sout >>
  /\ UNCHANGED outsideClient

\* a step of POST /api/message that writes nothing: the request of send s
\* goes from one await to one of the places that may follow it
ServerStep(s, from, to) ==
  /\ sreq[s] = from
  /\ \E outcome \in to : sreq' = [sreq EXCEPT ![s] = outcome]
  /\ UNCHANGED << cache, plainCache, input, backup, srv, refetching, cstage,
                  ctext, cacc, ctxPrev, cbefore, sout, fetched, isLoading >>
  /\ UNCHANGED outsideClient

\* POST /api/message: await req.json()
ServerJson(s) == ServerStep(s, "json", {"getUser"})

\* POST /api/message: await getUser(); no user makes the destructuring throw
\* (500), a user without id gets 401
ServerGetUser(s) ==
  ServerStep(s, "getUser", {"findFirst", "rejected", "errored"})

\* POST /api/message: await db.file.findFirst; no file of the user gets 404
ServerFindFile(s) ==
  ServerStep(s, "findFirst", {"create", "rejected", "errored"})

\* POST /api/message: await db.message.create of the user's message
ServerCreate(s) ==
  /\ sreq[s] = "create"
  /\ \E outcome \in {"openIndex", "errored"} :
       /\ sreq' = [sreq EXCEPT ![s] = outcome]
       /\ srv' = IF outcome = "openIndex"
                   THEN Stored(srv, ctext[s], TRUE) ELSE srv
  /\ UNCHANGED << cache, plainCache, input, backup, refetching, cstage, ctext,
                  cacc, ctxPrev, cbefore, sout, fetched, isLoading >>
  /\ UNCHANGED outsideClient

\* POST /api/message: await PineconeStore.fromExistingIndex
ServerOpenIndex(s) == ServerStep(s, "openIndex", {"search", "errored"})

\* POST /api/message: await vectorStore.similaritySearch
ServerSearch(s) == ServerStep(s, "search", {"findMany", "errored"})

\* POST /api/message: await db.message.findMany of the previous messages
ServerPrevMessages(s) == ServerStep(s, "findMany", {"completion", "errored"})

\* POST /api/message: await openai.chat.completions.create, then the
\* streaming response is returned
ServerCompletionCreate(s) ==
  ServerStep(s, "completion", {"streaming", "errored"})

\* the stream of the response forwards a chunk of the completion
ServerChunk(s) ==
  /\ sreq[s] = "streaming"
  /\ Len(sout[s]) < MaxChunks
  /\ sout' = [sout EXCEPT ![s] = Append(@, Completion[Len(@) + 1])]
  /\ UNCHANGED << cache, plainCache, input, backup, srv, refetching, cstage,
                  ctext, cacc, ctxPrev, cbefore, sreq, fetched, isLoading >>
  /\ UNCHANGED outsideClient

\* the completion has ended: the stream of the response forwards no more
ServerClose(s) == ServerStep(s, "streaming", {"closing"})

\* onCompletion: db.message.create of the completion
ServerCompletion(s) ==
  /\ sreq[s] = "closing"
  /\ srv' = Stored(srv, Flatten(sout[s]), FALSE)
  /\ sreq' = [sreq EXCEPT ![s] = "completed"]
  /\ UNCHANGED << cache, plainCache, input, backup, refetching, cstage, ctext,
                  cacc, ctxPrev, cbefore, sout, fetched, isLoading >>
  /\ UNCHANGED outsideClient

\* mutationFn's fetch returns: a 2xx response with a body, on which
\* onSuccess clears isLoading, or a non-ok response (401, 404, 500) that
\* fails the mutation
PostResponds(s) ==
  /\ cstage[s] = "sent"
  /\ sreq[s] \in {"rejected", "errored", "streaming", "closing", "completed"}
  /\ IF sreq[s] \in {"rejected", "errored"}
       THEN OnError(s, ctxPrev[s])
       ELSE /\ cstage' = [cstage EXCEPT ![s] = "reading"]
            /\ isLoading' = FALSE
            /\ UNCHANGED << plainCache, input, refetching, fetched >>
  /\ UNCHANGED << cache, backup, srv, ctext, cacc, ctxPrev, cbefore, sreq,
                  sout >>
  /\ UNCHANGED outsideClient

\* mutationFn's fetch returns a 2xx response with no body: onSuccess clears
\* isLoading, toasts and returns, then onSettled invalidates getFileMessages
PostNoBody(s) ==
  /\ cstage[s] = "sent"
  /\ sreq[s] \in {"streaming", "closing", "completed"}
  /\ AddToast("There was a problem sending this message")
  /\ cstage' = [cstage EXCEPT ![s] = "done"]
  /\ isLoading' = FALSE
  /\ refetching' = TRUE
  /\ fetched' = Asked("refetch", cache)
  /\ UNCHANGED << cache, plainCache, input, backup, srv, ctext, cacc, ctxPrev,
                  cbefore, sreq, sout >>
  /\ UNCHANGED << serverVars, poll >>

\* mutationFn's fetch rejects, wherever the server is with the request
FetchRejects(s) ==
  /\ cstage[s] = "sent"
  /\ OnError(s, ctxPrev[s])
  /\ UNCHANGED << cache, backup, srv, ctext, cacc, ctxPrev, cbefore, sreq,
                  sout >>
  /\ UNCHANGED outsideClient

\* onSuccess, one turn of its loop with a chunk read: the updater maps the
\* pages, so the newest page is a new object, no longer the one a
\* fetchNextPage in flight holds
ReadChunk(s) ==
  /\ cstage[s] = "reading"
  /\ Len(cacc[s]) < Len(sout[s])
  /\ LET chunkValue == sout[s][Len(cacc[s]) + 1]
     IN  /\ cacc' = [cacc EXCEPT ![s] = Append(@, chunkValue)]
         /\ cache' = StreamUpdate(cache, AccResponse(cacc'[s]))
  /\ fetched' = [fetched EXCEPT !.shared = FALSE]
  /\ UNCHANGED << plainCache, input, backup, srv, refetching, cstage, ctext,
                  ctxPrev, cbefore, sreq, sout, isLoading >>
  /\ UNCHANGED outsideClient

\* onSuccess, the last turn of its loop (done, an empty chunk), then
\* onSettled clears isLoading and invalidates getFileMessages
ReadDone(s) ==
  /\ cstage[s] = "reading"
  /\ sreq[s] \in {"closing", "completed"}
  /\ Len(cacc[s]) = Len(sout[s])
  /\ cache' = StreamUpdate(cache, AccResponse(cacc[s]))
  /\ isLoading' = FALSE
  /\ refetching' = TRUE
  /\ fetched' = Asked("refetch", cache')
  /\ cstage' = [cstage EXCEPT ![s] = "done"]
  /\ UNCHANGED << plainCache, input, backup, srv, ctext, cacc, ctxPrev,
                  cbefore, sreq, sout >>
  /\ UNCHANGED outsideClient

\* onSuccess: reader.read() rejects, so onError and onSettled run
ReadRejects(s) ==
  /\ cstage[s] = "reading"
  /\ OnError(s, ctxPrev[s])
  /\ UNCHANGED << cache, backup, srv, ctext, cacc, ctxPrev, cbefore, sreq,
                  sout >>
  /\ UNCHANGED outsideClient

\* fetchNextPage of Messages, called whenever the last rendered message (the
\* loading message counts) is in view. With no page the first page is asked
\* for; when the last page has a nextCursor the fetch in flight is cancelled
\* and the page of the cursor asked for; when it has none nothing is asked
\* for, and the query library decides whether the fetch in flight goes on
\* or is cancelled
ChatFetchNextPage ==
  /\ isLoading \/ Cached(cache) # << >>
  /\ IF cache.pages = << >>
       THEN /\ refetching' = TRUE
            /\ fetched' = Asked("refetch", cache)
       ELSE IF NextCursor(cache.pages) = None
       THEN \E cancelled \in BOOLEAN :
              /\ refetching' = (refetching /\ ~cancelled)
              /\ fetched' = IF cancelled THEN NoFetch ELSE fetched
       ELSE /\ refetching' = TRUE
            /\ fetched' = Asked("next", cache)
  /\ UNCHANGED << cache, plainCache, input, backup, srv, cstage, ctext, cacc,
                  ctxPrev, cbefore, sreq, sout, isLoading >>
  /\ UNCHANGED outsideClient

\* the window gets the focus, or the network is back: the query is fetched
\* anew unless a fetch is in flight
RefetchOnFocus ==
  /\ ~refetching
  /\ refetching' = TRUE
  /\ fetched' = Asked("refetch", cache)
  /\ UNCHANGED << cache, plainCache, input, backup, srv, cstage, ctext, cacc,
                  ctxPrev, cbefore, sreq, sout, isLoading >>
  /\ UNCHANGED outsideClient

\* the fetch in flight ends with an error, after its retries: the query
\* keeps its data
FetchFailed ==
  /\ refetching' = FALSE
  /\ fetched' = NoFetch

\* getFileMessages for the page the fetch is at: isAuth awaits getUser();
\* no user, or one without id, is UNAUTHORIZED
FetchGetUser ==
  /\ refetching
  /\ fetched.stage = "getUser"
  /\ \E user \in BOOLEAN :
       IF user THEN /\ fetched' = [fetched EXCEPT !.stage = "findFirst"]
                    /\ UNCHANGED refetching
               ELSE FetchFailed
  /\ UNCHANGED << cache, plainCache, input, backup, srv, cstage, ctext, cacc,
                  ctxPrev, cbefore, sreq, sout, isLoading >>
  /\ UNCHANGED outsideClient

\* getFileMessages: await db.file.findFirst; no file of the user is
\* NOT_FOUND
FetchFindFile ==
  /\ refetching
  /\ fetched.stage = "findFirst"
  /\ \E file \in BOOLEAN :
       IF file THEN /\ fetched' = [fetched EXCEPT !.stage = "findMany"]
                    /\ UNCHANGED refetching
               ELSE FetchFailed
  /\ UNCHANGED << cache, plainCache, input, backup, srv, cstage, ctext, cacc,
                  ctxPrev, cbefore, sreq, sout, isLoading >>
  /\ UNCHANGED outsideClient

\* getFileMessages: await db.message.findMany answers the page from the rows
\* stored now, the first page or the page of the last nextCursor; the fetch
\* goes on to the next page while it wants more and the page has a
\* nextCursor
FetchFindMany ==
  /\ refetching
  /\ fetched.stage = "findMany"
  /\ LET p     == IF fetched.pages = << >> THEN 1
                  ELSE Position(srv, NextCursor(fetched.pages))
         pages == Append(fetched.pages, PageFrom(srv, p))
     IN  fetched' =
           [fetched EXCEPT
              !.pages = pages,
              !.stage = IF Len(pages) < fetched.want /\ NextCursor(pages) # None
                          THEN "getUser" ELSE "answered"]
  /\ UNCHANGED << cache, plainCache, input, backup, srv, refetching, cstage,
                  ctext, cacc, ctxPrev, cbefore, sreq, sout, isLoading >>
  /\ UNCHANGED outsideClient

\* the answer of the fetch becomes the data of the infinite query
FetchApplied ==
  /\ refetching
  /\ fetched.stage = "answered"
  /\ cache' = [defined |-> TRUE, pages |-> fetched.pages]
  /\ refetching' = FALSE
  /\ fetched' = NoFetch
  /\ UNCHANGED << plainCache, input, backup, srv, cstage, ctext, cacc,
                  ctxPrev, cbefore, sreq, sout, isLoading >>
  /\ UNCHANGED outsideClient

\* the chat of a document with n messages is open: the infinite query is
\* loading (np = 0), or has loaded np pages
ClientStart(n, np) ==
  /\ IngestIdle
  /\ ChatIdle
  /\ PageIdle
  /\ PlanIdle
  /\ ApiIdle
  /\ PollIdle
  /\ ToastIdle
  /\ files = {}
  /\ nextFileId = 1
  /\ upserts = {}
  /\ upload = [k \in Keys |-> [isSubscribed |-> FALSE, pages |-> PagesPerPdf("Free")]]
  /\ srv = Thread(n)
  /\ cache = IF np = 0 THEN NoData
             ELSE [defined |-> TRUE, pages |-> FetchPages(srv, np)]
  /\ refetching = (np = 0)
  /\ fetched = IF np = 0 THEN Asked("refetch", NoData) ELSE NoFetch
  /\ plainCache = [defined |-> FALSE, messages |-> << >>]
  /\ input = << >>
  /\ backup = << >>
  /\ isLoading = FALSE
  /\ cstage = [s \in Sends |-> "idle"]
  /\ ctext = [s \in Sends |-> << >>]
  /\ cacc = [s \in Sends |-> << >>]
  /\ ctxPrev = [s \in Sends |-> << >>]
  /\ cbefore = [s \in Sends |-> NoData]
  /\ sreq = [s \in Sends |-> "unsent"]
  /\ sout = [s \in Sends |-> << >>]

\* the chat of a document with no message or with one more than a page
\* holds; the infinite query is loading, or has loaded one or two pages
ClientInit ==
  \E n \in {0, INFINITE_QUERY_LIMIT + 1}, k \in 0..2 : ClientStart(n, k)

\* one send in a chat where the user types, the window gets the focus, the
\* list is scrolled and the network fails at any time
ClientNext ==
  \/ \E q \in Questions : HandleInputChange(q)
  \/ OnMutateStart("s1")
  \/ \E s \in Sends : OnMutateApply(s)
  \/ \E s \in Sends : ServerJson(s)
  \/ \E s \in Sends : ServerGetUser(s)
  \/ \E s \in Sends : ServerFindFile(s)
  \/ \E s \in Sends : ServerCreate(s)
  \/ \E s \in Sends : ServerOpenIndex(s)
  \/ \E s \in Sends : ServerSearch(s)
  \/ \E s \in Sends : ServerPrevMessages(s)
  \/ \E s \in Sends : ServerCompletionCreate(s)
  \/ \E s \in Sends : ServerChunk(s)
  \/ \E s \in Sends : ServerClose(s)
  \/ \E s \in Sends : ServerCompletion(s)
  \/ \E s \in Sends : PostResponds(s)
  \/ \E s \in Sends : PostNoBody(s)
  \/ \E s \in Sends : FetchRejects(s)
  \/ \E s \in Sends : ReadChunk(s)
  \/ \E s \in Sends : ReadDone(s)
  \/ \E s \in Sends : ReadRejects(s)
  \/ ChatFetchNextPage
  \/ RefetchOnFocus
  \/ FetchGetUser
  \/ FetchFindFile
  \/ FetchFindMany
  \/ FetchApplied

ClientSpec == ClientInit /\ [][ClientNext]_vars

\* the question the user types for the send to come
Typed == IF cstage["s1"] = "idle" THEN << "q", "1" >> ELSE << "q", "2" >>

\* the chat of a document with no message; the infinite query is loading, or
\* has loaded its one page
TwoSendInit == \E k \in 0..1 : ClientStart(0, k)

\* two sends, the second begun at any time after the first, in a chat where
\* the window keeps the focus, the list is not scrolled and every response
\* arrives with its body
TwoSendNext ==
  \/ HandleInputChange(Typed)
  \/ OnMutateStart("s1")
  \/ cstage["s1"] # "idle" /\ OnMutateStart("s2")
  \/ \E s \in Sends : OnMutateApply(s)
  \/ \E s \in Sends : ServerJson(s)
  \/ \E s \in Sends : ServerGetUser(s)
  \/ \E s \in Sends : ServerFindFile(s)
  \/ \E s \in Sends : ServerCreate(s)
  \/ \E s \in Sends : ServerOpenIndex(s)
  \/ \E s \in Sends : ServerSearch(s)
  \/ \E s \in Sends : ServerPrevMessages(s)
  \/ \E s \in Sends : ServerCompletionCreate(s)
  \/ \E s \in Sends : ServerChunk(s)
  \/ \E s \in Sends : ServerClose(s)
  \/ \E s \in Sends : ServerCompletion(s)
  \/ \E s \in Sends : PostResponds(s)
  \/ \E s \in Sends : ReadChunk(s)
  \/ \E s \in Sends : ReadDone(s)
  \/ FetchGetUser
  \/ FetchFindFile
  \/ FetchFindMany
  \/ FetchApplied

TwoSendSpec == TwoSendInit /\ [][TwoSendNext]_vars

\* the places of the cached messages with id "ai-response"
AiPlaces(c) ==
  { ij \in (1..Len(c.pages)) \X (1..(INFINITE_QUERY_LIMIT + 2 * MaxChunks + 4)) :
      /\ ij[2] <= Len(c.pages[ij[1]].messages)
      /\ c.pages[ij[1]].messages[ij[2]].id = "ai-response" }

\* the cached messages other than "ai-response"
Others(c) ==
  SelectSeq(Cached(c), LAMBDA m : m.id # "ai-response")

\* send s fails on a non-ok response in this step
FailStep(s) == cstage[s] = "sent" /\ cstage'[s] = "failed"

\* onSuccess of send s writes the cache in this step
ChunkStep(s) ==
  /\ cstage[s] = "reading"
  /\ cacc'[s] # cacc[s] \/ cstage'[s] = "done"

\* C27: when a send fails on a non-ok response, the input holds the text
\* that was being sent and the infinite query's messages no longer hold the
\* optimistic message of that send: they are the messages it held before the
\* send
C27_RollbackOnFailure ==
  [][\A s \in Sends :
       FailStep(s) =>
         /\ input' = ctext[s]
         /\ \A i \in 1..Len(Cached(cache')) : Cached(cache')[i].id # OptId(s)
         /\ Cached(cache') = Cached(cbefore[s])]_vars

\* C28: after every chunk of a streamed answer the infinite query holds
\* exactly one "ai-response" message, in the newest page, with the chunks
\* received so far joined in order as its text, and its other messages are
\* the ones it held before the chunk
C28_OneAiResponse ==
  [][\A s \in Sends :
       ChunkStep(s) =>
         /\ Cardinality(AiPlaces(cache')) = 1
         /\ \A ij \in AiPlaces(cache') :
              /\ ij[1] = 1
              /\ cache'.pages[1].messages[ij[2]].text = AccResponse(cacc'[s])
         /\ Others(cache') = Others(cache)]_vars

\* C28 where the infinite query held a page when the chunk arrived
C28_LoadedCacheOnly ==
  [][\A s \in Sends :
       (ChunkStep(s) /\ cache.defined /\ cache.pages # << >>) =>
         /\ Cardinality(AiPlaces(cache')) = 1
         /\ \A ij \in AiPlaces(cache') :
              /\ ij[1] = 1
              /\ cache'.pages[1].messages[ij[2]].text = AccResponse(cacc'[s])
         /\ Others(cache') = Others(cache)]_vars

====
